---- MODULE Spec2Model ----
(***************************************************************************)
(* A model of the Content-- core of dop-browser: the node table            *)
(* (dop-content/src/primitives.rs, dop-parser/src/compiler.rs), the style  *)
(* table and its flattening, and the binary codec of CompiledUnit          *)
(* (dop-parser/src/compiler.rs).                                           *)
(*                                                                         *)
(* Number representation.  TLC integers are 32-bit signed, so              *)
(*   - a u8 is a number in 0..255;                                         *)
(*   - a u32 below 2^31 is itself; one from 2^31 up, which only decoding   *)
(*     arbitrary bytes can produce, is its value minus 2^32;               *)
(*   - an f32 is the number of its IEEE-754 bit pattern (0.0 is 0,         *)
(*     100.0 is 0x42C80000), so that its bytes are what the code writes;   *)
(*   - a u64 is stored as the sequence of its 8 little-endian bytes, and   *)
(*     wrapping arithmetic on it is done on three limbs with the carry.    *)
(* Rust vectors are 0-based and ids are 1-based (index = id - 1); the      *)
(* sequences here are 1-based, so a node id indexes its row directly.      *)
(***************************************************************************)
EXTENDS Integers, Sequences, FiniteSets, TLC

VARIABLES
    table,        \* NodeTable under construction by create_node
    definitions,  \* StyleTable.definitions
    flattened,    \* StyleTable.flattened
    flattenState, \* "stale" after a call that may change definitions, "flattened"
                  \* after flatten(), "reflattened" after a flatten() that followed one
    unit,         \* the CompiledUnit that is built and written
    buf,          \* the bytes write_binary returned, or those bytes with one changed
    input,        \* the slice that was given to read_binary
    decoded,      \* what read_binary returned: None or a unit
    pc,           \* the codec scenario's position
    flatStyle,    \* a FlatStyle whose checksum field is kept up to date
    prevChecksum, \* the checksum flatStyle had before its last field assignment
    changedField, \* the field that assignment wrote, "" before the first one
    textShaper,   \* the TextShaper: cache, font_size, line_height
    lastShaped,   \* what the last shape_paragraph returned, None before the first
    shaperCall,   \* the last call on the shaper and its arguments
    propertyTable, \* the PropertyTable of dop-content-ir
    tableCall,    \* the last call on the node table or the property table,
                  \* with its arguments and what it returned
    options,      \* CompilerContext.options
    units,        \* CompilerContext.units
    compiled,     \* the source tables of the last compile call and what it
                  \* returned, None before the first
    stringPool,   \* the StringPool
    poolCall,     \* the last call on the pool, its argument and what it returned
    handedOut,    \* the <<string, id>> pairs intern has returned since the pool
                  \* was made or last cleared
    styleCall,    \* the last call on the style table and its style_id argument
    contentBuilder \* the ContentBuilder

\* The variables of the components other than the node table, the style table
\* and the codec.
checksumVars == <<flatStyle, prevChecksum, changedField>>
shaperVars == <<textShaper, lastShaped, shaperCall>>
tableVars == <<propertyTable, tableCall>>
compilerVars == <<options, units, compiled>>
poolVars == <<stringPool, poolCall, handedOut>>
builderVars == <<styleCall, contentBuilder>>
sideVars == <<checksumVars, shaperVars, tableVars, compilerVars, poolVars, builderVars>>

\* The variables of the node table, the style table and the codec.
styleVars == <<definitions, flattened, flattenState>>
codecVars == <<unit, buf, input, decoded, pc>>
coreVars == <<table, definitions, flattened, flattenState, unit, buf, input, decoded, pc>>

vars == <<coreVars, sideVars>>

\* ------------------------------------------------------------------ bounds

\* Most nodes a NodeTable is grown to.
MaxNodes == 3
\* Most definitions a StyleTable is grown to.
MaxStyles == 2
\* Most nodes and most styles of the unit that is written.
MaxUnitNodes == 2
MaxUnitStyles == 1

\* Node types, parents and style ids that create_node is called with.
NodeTypeSamples == {1, 4}
StyleIdSamples == {0, 1}

Range(s) == {s[i] : i \in 1..Len(s)}

\* ================================================================= bytes

\* u32::to_le_bytes and u32::from_le_bytes.  A u32 below 2^31 is held as
\* itself and one from 2^31 up as its value minus 2^32 (the i32 with the same
\* bits), so that every four bytes decode to a distinct number and encode back
\* to the same bytes.
U32ToLe(v) ==
    <<v % 256, (v \div 256) % 256, (v \div 65536) % 256, (v \div 16777216) % 256>>

U32FromLe(b) ==
    b[1] + 256 * b[2] + 65536 * b[3]
    + 16777216 * (IF b[4] < 128 THEN b[4] ELSE b[4] - 256)

\* A u64 while it is computed with: its three limbs <<bits 0..23, bits 24..47,
\* bits 48..63>>, so that a limb times 31 plus a carry stays below 2^31.
U64Zero == <<0, 0, 0>>

\* `v as u64` of a u32 below 2^31.
U64FromU32(v) == <<v % 16777216, v \div 16777216, 0>>

\* u64::to_le_bytes.
U64ToLe(h) ==
    <<h[1] % 256, (h[1] \div 256) % 256, h[1] \div 65536,
      h[2] % 256, (h[2] \div 256) % 256, h[2] \div 65536,
      h[3] % 256, h[3] \div 256>>

\* h.wrapping_mul(31).wrapping_add(a) for a below 2^30: limb by limb with the
\* carry, the carry out of the highest limb dropped (arithmetic modulo 2^64).
U64Mul31Add(h, a) ==
    LET t1 == h[1] * 31 + a
        t2 == h[2] * 31 + (t1 \div 16777216)
    IN  <<t1 % 16777216, t2 % 16777216, (h[3] * 31 + (t2 \div 16777216)) % 65536>>

\* The rolling hash loop, `for b in bytes[lo..hi] { hash = hash * 31 + b }`
\* with wrapping arithmetic.  The range is folded left to right in two halves,
\* the hash after the first half being the start of the second, which keeps
\* the evaluation shallow; each intermediate hash is bound by a quantifier so
\* that it is computed once.
RECURSIVE RollingHash(_, _, _, _)
RollingHash(bytes, lo, hi, hash) ==
    IF lo > hi THEN hash
    ELSE IF lo = hi THEN U64Mul31Add(hash, bytes[lo])
    ELSE CHOOSE result \in
             {RollingHash(bytes, ((lo + hi) \div 2) + 1, hi, left) :
                 left \in {RollingHash(bytes, lo, (lo + hi) \div 2, hash)}} : TRUE

\* ============================================================= NodeTable

NodeTableNew ==
    [node_types |-> <<>>, parents |-> <<>>, first_children |-> <<>>,
     next_siblings |-> <<>>, style_ids |-> <<>>]

NodeTableLen(t) == Len(t.node_types)

\* The five pushes of create_node.
PushNode(t, node_type, parent, style_id) ==
    [node_types     |-> Append(t.node_types, node_type),
     parents        |-> Append(t.parents, parent),
     first_children |-> Append(t.first_children, 0),
     next_siblings  |-> Append(t.next_siblings, 0),
     style_ids      |-> Append(t.style_ids, style_id)]

\* The while loop of create_node: the last node of the sibling chain.
RECURSIVE LastSibling(_, _)
LastSibling(t, sibling) ==
    IF t.next_siblings[sibling] # 0
    THEN LastSibling(t, t.next_siblings[sibling])
    ELSE sibling

\* A create_node that links the new node by its 0-based index.
create_node_zero_based(t, node_type, parent, style_id) ==
    LET idx == NodeTableLen(t)
        p   == PushNode(t, node_type, parent, style_id)
    IN  IF parent > 0 /\ parent <= NodeTableLen(p)
        THEN IF p.first_children[parent] = 0
             THEN [p EXCEPT !.first_children[parent] = idx]
             ELSE [p EXCEPT !.next_siblings[LastSibling(p, p.first_children[parent])] = idx]
        ELSE p

\* A create_node that links the new node as the FIRST child.
create_node_prepend(t, node_type, parent, style_id) ==
    LET id == NodeTableLen(t) + 1
        p  == PushNode(t, node_type, parent, style_id)
    IN  IF parent > 0 /\ parent <= NodeTableLen(p)
        THEN [p EXCEPT !.next_siblings[id] =
                           IF p.first_children[parent] = id THEN 0
                           ELSE p.first_children[parent],
                       !.first_children[parent] = id]
        ELSE p

\* NodeTable::create_node: the table after the call (the id returned is
\* create_node_id).
create_node(t, node_type, parent, style_id) ==
    LET id == NodeTableLen(t) + 1
        p  == PushNode(t, node_type, parent, style_id)
    IN  IF parent > 0 /\ parent <= NodeTableLen(p)
        THEN IF p.first_children[parent] = 0
             THEN [p EXCEPT !.first_children[parent] = id]
             ELSE [p EXCEPT !.next_siblings[LastSibling(p, p.first_children[parent])] = id]
        ELSE p

create_node_id(t) == NodeTableLen(t) + 1

\* The while loop of get_children.
RECURSIVE WalkSiblings(_, _)
WalkSiblings(t, child) ==
    IF child = 0 THEN <<>>
    ELSE <<child>> \o WalkSiblings(t, t.next_siblings[child])

get_children(t, node_id) ==
    IF node_id = 0 \/ node_id > NodeTableLen(t)
    THEN <<>>
    ELSE WalkSiblings(t, t.first_children[node_id])

\* ============================================================= FlatStyle

\* Bit patterns of the f32 values the model uses.
F32_ZERO == 0
\* 50.0f32 and 100.0f32
F32_50 == 1112014848
F32_100 == 1120403456
\* f32::MAX (0x7F7FFFFF)
F32_MAX == 2139095039

\* The f32 fields of FlatStyle, in declaration order, up to the fill colour.
FlatF32Fields ==
    <<"gap_row", "gap_col", "width", "height", "min_width", "min_height",
      "max_width", "max_height", "inset_top", "inset_right", "inset_bottom",
      "inset_left", "offset_top", "offset_right", "offset_bottom", "offset_left">>

\* Every field of FlatStyle but the checksum.
FlatValueFields ==
    {"direction", "pack", "align", "pad0", "fill_r", "fill_g", "fill_b", "fill_a",
     "round"} \cup Range(FlatF32Fields)

\* size_of::<FlatStyle>() for the packed layout: 4 + 16 * 4 + 4 + 4 + 8.
FlatStyleSize == 84

\* FlatStyle::default(): every field zero (pad0 is the field _pad0).
FlatStyleDefault ==
    [direction |-> 0, pack |-> 0, align |-> 0, pad0 |-> 0,
     gap_row |-> F32_ZERO, gap_col |-> F32_ZERO,
     width |-> F32_ZERO, height |-> F32_ZERO,
     min_width |-> F32_ZERO, min_height |-> F32_ZERO,
     max_width |-> F32_ZERO, max_height |-> F32_ZERO,
     inset_top |-> F32_ZERO, inset_right |-> F32_ZERO,
     inset_bottom |-> F32_ZERO, inset_left |-> F32_ZERO,
     offset_top |-> F32_ZERO, offset_right |-> F32_ZERO,
     offset_bottom |-> F32_ZERO, offset_left |-> F32_ZERO,
     fill_r |-> 0, fill_g |-> 0, fill_b |-> 0, fill_a |-> 0,
     round |-> F32_ZERO,
     checksum |-> U64ToLe(U64Zero)]

RECURSIVE F32FieldBytes(_, _)
F32FieldBytes(s, i) ==
    IF i > Len(FlatF32Fields) THEN <<>>
    ELSE U32ToLe(s[FlatF32Fields[i]]) \o F32FieldBytes(s, i + 1)

\* A serialisation that writes zeros where the checksum field goes.
FlatStyleBytes_zero_checksum(s) ==
    <<s.direction, s.pack, s.align, s.pad0>>
    \o F32FieldBytes(s, 1)
    \o <<s.fill_r, s.fill_g, s.fill_b, s.fill_a>>
    \o U32ToLe(s.round)
    \o <<0, 0, 0, 0, 0, 0, 0, 0>>

\* zerocopy::IntoBytes::as_bytes(style): the 84 bytes of the packed record,
\* in field-declaration order (little-endian target).
FlatStyleBytes(s) ==
    <<s.direction, s.pack, s.align, s.pad0>>
    \o F32FieldBytes(s, 1)
    \o <<s.fill_r, s.fill_g, s.fill_b, s.fill_a>>
    \o U32ToLe(s.round)
    \o s.checksum

\* FlatStyle::read_from_bytes on a slice of exactly FlatStyleSize bytes: every
\* bit pattern is a FlatStyle, so it is always Ok.
FlatStyleFromBytes(b) ==
    LET F32At(k) == U32FromLe(SubSeq(b, k, k + 3))
    IN  [direction |-> b[1], pack |-> b[2], align |-> b[3], pad0 |-> b[4],
         gap_row |-> F32At(5), gap_col |-> F32At(9),
         width |-> F32At(13), height |-> F32At(17),
         min_width |-> F32At(21), min_height |-> F32At(25),
         max_width |-> F32At(29), max_height |-> F32At(33),
         inset_top |-> F32At(37), inset_right |-> F32At(41),
         inset_bottom |-> F32At(45), inset_left |-> F32At(49),
         offset_top |-> F32At(53), offset_right |-> F32At(57),
         offset_bottom |-> F32At(61), offset_left |-> F32At(65),
         fill_r |-> b[69], fill_g |-> b[70], fill_b |-> b[71], fill_a |-> b[72],
         round |-> F32At(73),
         checksum |-> SubSeq(b, 77, 84)]

\* compute_style_checksum: the rolling hash of all bytes but the last 8, as
\* the 8 bytes the checksum field holds.
compute_style_checksum(style) ==
    CHOOSE hash \in {U64ToLe(RollingHash(bytes, 1, Len(bytes) - 8, U64Zero)) :
                        bytes \in {FlatStyleBytes(style)}} : TRUE

\* ============================================================ StyleTable

\* PropertyValue, a tagged value.
PvFloat(bits) == [tag |-> "Float", v |-> bits]
PvInt(n) == [tag |-> "Int", v |-> n]
PvDirection(d) == [tag |-> "Direction", v |-> d]
PvPack(p) == [tag |-> "Pack", v |-> p]
PvAlign(a) == [tag |-> "Align", v |-> a]
PvColor(r, g, b, a) == [tag |-> "Color", r |-> r, g |-> g, b |-> b, a |-> a]

\* The names flatten() dispatches to the f32 field of the same name.
FloatPropertyNames ==
    {"width", "height", "gap_row", "gap_col",
     "inset_top", "inset_right", "inset_bottom", "inset_left",
     "offset_top", "offset_right", "offset_bottom", "offset_left", "round"}

\* A dispatch in which "height" is written to the width field.
ApplyProperty_height_to_width(flat, name, value) ==
    CASE name = "width" /\ value.tag = "Float" -> [flat EXCEPT !.width = value.v]
      [] name = "height" /\ value.tag = "Float" -> [flat EXCEPT !.width = value.v]
      [] OTHER -> flat

\* A dispatch whose f32 arms also take an Int value.
ApplyProperty_any_number(flat, name, value) ==
    CASE name = "direction" /\ value.tag = "Direction" -> [flat EXCEPT !.direction = value.v]
      [] name = "pack" /\ value.tag = "Pack" -> [flat EXCEPT !.pack = value.v]
      [] name = "align" /\ value.tag = "Align" -> [flat EXCEPT !.align = value.v]
      [] name \in FloatPropertyNames /\ value.tag \in {"Float", "Int"} ->
            [flat EXCEPT ![name] = value.v]
      [] name = "fill" /\ value.tag = "Color" ->
            [flat EXCEPT !.fill_r = value.r, !.fill_g = value.g,
                         !.fill_b = value.b, !.fill_a = value.a]
      [] OTHER -> flat

\* One arm of the match in flatten(): (name, value) sets its field, and a pair
\* that matches no arm changes nothing.
ApplyProperty(flat, name, value) ==
    CASE name = "direction" /\ value.tag = "Direction" -> [flat EXCEPT !.direction = value.v]
      [] name = "pack" /\ value.tag = "Pack" -> [flat EXCEPT !.pack = value.v]
      [] name = "align" /\ value.tag = "Align" -> [flat EXCEPT !.align = value.v]
      [] name \in FloatPropertyNames /\ value.tag = "Float" -> [flat EXCEPT ![name] = value.v]
      [] name = "fill" /\ value.tag = "Color" ->
            [flat EXCEPT !.fill_r = value.r, !.fill_g = value.g,
                         !.fill_b = value.b, !.fill_a = value.a]
      [] OTHER -> flat

\* `for (name, value) in &def.properties`: the map is visited in `order`, one
\* of the orders a HashMap may iterate in.
RECURSIVE ApplyProperties(_, _, _, _)
ApplyProperties(flat, properties, order, k) ==
    IF k > Len(order) THEN flat
    ELSE ApplyProperties(ApplyProperty(flat, order[k], properties[order[k]]),
                         properties, order, k + 1)

\* The closure given to find() in the parent lookup: `|_| false`.
ParentMatches(candidate, def) == FALSE

\* self.flattened.iter().find(..): the first record produced so far in this
\* pass that the closure accepts.
FindParentFlat(done, def) ==
    LET hits == {i \in 1..Len(done) : ParentMatches(done[i], def)}
    IN  IF hits = {} THEN [some |-> FALSE]
        ELSE [some |-> TRUE,
              value |-> done[CHOOSE i \in hits : \A j \in hits : i <= j]]

\* The record a definition starts from: defaults with max_width and max_height
\* set to f32::MAX.
FlatStart ==
    [FlatStyleDefault EXCEPT !.max_width = F32_MAX, !.max_height = F32_MAX]

\* A start record that resolves the parent in all of `defs`, declared earlier
\* or later, from the parent's own properties.
StartRecord_any_order(defs, done, def) ==
    LET hits == {j \in 1..Len(defs) : defs[j].id = def.parent_id}
    IN  IF def.parent_id > 0 /\ hits # {}
        THEN LET p == defs[CHOOSE j \in hits : \A k \in hits : j <= k]
                 names == DOMAIN p.properties
                 order == CHOOSE s \in [1..Cardinality(names) -> names] :
                              {s[i] : i \in 1..Cardinality(names)} = names
             IN  ApplyProperties(FlatStart, p.properties, order, 1)
        ELSE FlatStart

\* The start of one iteration of flatten(): the defaults, replaced by the
\* parent's record when parent_id > 0 and the lookup finds one.
StartRecord(defs, done, def) ==
    IF def.parent_id > 0 /\ FindParentFlat(done, def).some
    THEN FindParentFlat(done, def).value
    ELSE FlatStart

\* A flatten() body that computes the checksum before the own properties
\* are applied.
FlattenOne_checksum_first(defs, done, def, order) ==
    LET start == StartRecord(defs, done, def)
        sealed == [start EXCEPT !.checksum = compute_style_checksum(start)]
    IN  ApplyProperties(sealed, def.properties, order, 1)

\* The body of the loop of flatten() for one definition.
FlattenOne(defs, done, def, order) ==
    LET start == StartRecord(defs, done, def)
        flat  == ApplyProperties(start, def.properties, order, 1)
    IN  [flat EXCEPT !.checksum = compute_style_checksum(flat)]

\* The orders a map with these keys can be iterated in.
IterationOrders(names) ==
    {s \in [1..Cardinality(names) -> names] :
        {s[i] : i \in 1..Cardinality(names)} = names}

\* A flatten() loop that puts each new record in front of the ones before it.
RECURSIVE FlattenFrom_newest_first(_, _, _)
FlattenFrom_newest_first(defs, i, done) ==
    IF i > Len(defs) THEN {done}
    ELSE UNION {FlattenFrom_newest_first(defs, i + 1, <<flat>> \o done) :
                   flat \in {FlattenOne(defs, done, defs[i], order) :
                                order \in IterationOrders(DOMAIN defs[i].properties)}}

\* The loop of flatten() from definition i on, `done` being the records pushed
\* so far: every vector the pass can end with, over the orders in which each
\* property map may be iterated.
RECURSIVE FlattenFrom(_, _, _)
FlattenFrom(defs, i, done) ==
    IF i > Len(defs) THEN {done}
    ELSE UNION {FlattenFrom(defs, i + 1, Append(done, flat)) :
                   flat \in {FlattenOne(defs, done, defs[i], order) :
                                order \in IterationOrders(DOMAIN defs[i].properties)}}

\* StyleTable::flatten: `flattened` is cleared and refilled; the set of the
\* vectors it can hold afterwards.
flatten(defs) == FlattenFrom(defs, 1, <<>>)

\* definitions.iter_mut().find(|d| d.id == style_id): the index, 0 for None.
FindDefinition(defs, style_id) ==
    LET hits == {i \in 1..Len(defs) : defs[i].id = style_id}
    IN  IF hits = {} THEN 0 ELSE CHOOSE i \in hits : \A j \in hits : i <= j

create_style(defs, id) ==
    Append(defs, [id |-> id, parent_id |-> 0, properties |-> <<>>])

inherit_style(defs, style_id, parent_id) ==
    LET i == FindDefinition(defs, style_id)
    IN  IF i = 0 THEN defs ELSE [defs EXCEPT ![i].parent_id = parent_id]

\* HashMap::insert: the entry is added, or overwritten when the name is there.
MapInsert(properties, name, value) ==
    [n \in (DOMAIN properties) \cup {name} |->
        IF n = name THEN value ELSE properties[n]]

\* A set_property that adds a definition when no definition has the id.
set_property_upsert(defs, style_id, name, value) ==
    LET i == FindDefinition(defs, style_id)
    IN  IF i = 0
        THEN Append(defs, [id |-> style_id, parent_id |-> 0,
                           properties |-> MapInsert(<<>>, name, value)])
        ELSE [defs EXCEPT ![i].properties = MapInsert(@, name, value)]

set_property(defs, style_id, name, value) ==
    LET i == FindDefinition(defs, style_id)
    IN  IF i = 0 THEN defs
        ELSE [defs EXCEPT ![i].properties = MapInsert(@, name, value)]

\* ================================================ PropertyTable (compiler)

\* The value PropertyTable::resize of compiler.rs gives each column for a new
\* row: font_size 16.0 (0x41800000), color_a 255, StringId::NONE and zeros.
CompilerPropertyDefaults ==
    [direction |-> 0, pack |-> 0, align |-> 0,
     width |-> F32_ZERO, height |-> F32_ZERO,
     gap_row |-> F32_ZERO, gap_col |-> F32_ZERO,
     inset_top |-> F32_ZERO, inset_right |-> F32_ZERO,
     inset_bottom |-> F32_ZERO, inset_left |-> F32_ZERO,
     offset_top |-> F32_ZERO, offset_right |-> F32_ZERO,
     offset_bottom |-> F32_ZERO, offset_left |-> F32_ZERO,
     fill_r |-> 0, fill_g |-> 0, fill_b |-> 0, fill_a |-> 0,
     text_id |-> 0, font_size |-> 1098907648,
     color_r |-> 0, color_g |-> 0, color_b |-> 0, color_a |-> 255]

\* PropertyTable::new() of compiler.rs: every column empty.
CompilerPropertyTableNew == [c \in DOMAIN CompilerPropertyDefaults |-> <<>>]

\* PropertyTable::resize of compiler.rs.
compiler_resize(self, n) ==
    [c \in DOMAIN self |->
        [i \in 1..n |-> IF i <= Len(self[c]) THEN self[c][i]
                        ELSE CompilerPropertyDefaults[c]]]

\* ========================================================== CompiledUnit

\* MAGIC_NUMBER = 0x434D4D42 and FORMAT_VERSION.
MAGIC_NUMBER == 1129139522
FORMAT_VERSION == 1

\* The bytes read_binary asks for before it reads the header, and the bytes of
\* one node record.
HeaderSize == 24
NodeRecordSize == 17

\* Option<T>.
None == [some |-> FALSE]
Some(v) == [some |-> TRUE, value |-> v]

\* CompiledUnit::new(): the defaults with version = FORMAT_VERSION.
CompiledUnitNew ==
    [nodes |-> NodeTableNew, properties |-> CompilerPropertyTableNew,
     styles |-> <<>>, environment_id |-> 0,
     version |-> FORMAT_VERSION, checksum |-> U64ToLe(U64Zero)]

\* CompiledUnit::compute_checksum.
compute_checksum(u) ==
    LET h0 == U64FromU32(NodeTableLen(u.nodes))
        h1 == U64Mul31Add(h0, u.environment_id)
        h2 == U64Mul31Add(h1, Len(u.styles))
    IN  [u EXCEPT !.checksum = U64ToLe(h2)]

\* The 17 bytes write_binary emits for node i.
NodeRecordBytes(nodes, i) ==
    <<nodes.node_types[i]>>
    \o U32ToLe(nodes.parents[i])
    \o U32ToLe(nodes.first_children[i])
    \o U32ToLe(nodes.next_siblings[i])
    \o U32ToLe(nodes.style_ids[i])

RECURSIVE NodeTableBytes(_, _)
NodeTableBytes(nodes, i) ==
    IF i > NodeTableLen(nodes) THEN <<>>
    ELSE NodeRecordBytes(nodes, i) \o NodeTableBytes(nodes, i + 1)

RECURSIVE StyleVectorBytes(_, _)
StyleVectorBytes(styles, i) ==
    IF i > Len(styles) THEN <<>>
    ELSE FlatStyleBytes(styles[i]) \o StyleVectorBytes(styles, i + 1)

\* CompiledUnit::write_binary.
write_binary(u) ==
    U32ToLe(MAGIC_NUMBER)
    \o U32ToLe(u.version)
    \o U32ToLe(u.environment_id)
    \o u.checksum
    \o U32ToLe(NodeTableLen(u.nodes))
    \o NodeTableBytes(u.nodes, 1)
    \o U32ToLe(Len(u.styles))
    \o StyleVectorBytes(u.styles, 1)

\* A decoding of the node type byte without the arm for TextCluster.
DecodeNodeType_no_text_cluster(b) == IF b \in 0..7 THEN b ELSE 0

\* The match on the node type byte: 0..8 are the enum's ordinals, any other
\* byte decodes as Root.
DecodeNodeType(b) == IF b \in 0..8 THEN b ELSE 0

\* data[offset..offset + 4] as a little-endian u32 (offset is 0-based).
ReadU32(data, offset) == U32FromLe(SubSeq(data, offset + 1, offset + 4))

\* The node loop of read_binary with `remaining` records to go: None when a
\* record does not fit, else the table and the offset after it.
RECURSIVE ReadNodes(_, _, _, _)
ReadNodes(data, offset, remaining, nodes) ==
    IF remaining = 0 THEN Some([nodes |-> nodes, offset |-> offset])
    ELSE IF offset + NodeRecordSize > Len(data) THEN None
    ELSE CHOOSE r \in
           {ReadNodes(data, offset + NodeRecordSize, remaining - 1, next) :
              next \in {[node_types     |-> Append(nodes.node_types, DecodeNodeType(data[offset + 1])),
                         parents        |-> Append(nodes.parents, ReadU32(data, offset + 1)),
                         first_children |-> Append(nodes.first_children, ReadU32(data, offset + 5)),
                         next_siblings  |-> Append(nodes.next_siblings, ReadU32(data, offset + 9)),
                         style_ids      |-> Append(nodes.style_ids, ReadU32(data, offset + 13))]}} : TRUE

\* A style loop that stops at the first record that does not fit and keeps
\* the styles read so far.
RECURSIVE ReadStyles_keep_partial(_, _, _, _)
ReadStyles_keep_partial(data, offset, remaining, styles) ==
    IF remaining = 0 \/ offset + FlatStyleSize > Len(data) THEN Some(styles)
    ELSE ReadStyles_keep_partial(data, offset + FlatStyleSize, remaining - 1,
                   Append(styles, FlatStyleFromBytes(SubSeq(data, offset + 1, offset + FlatStyleSize))))

\* The style loop of read_binary: None when a record does not fit.
RECURSIVE ReadStyles(_, _, _, _)
ReadStyles(data, offset, remaining, styles) ==
    IF remaining = 0 THEN Some(styles)
    ELSE IF offset + FlatStyleSize > Len(data) THEN None
    ELSE ReadStyles(data, offset + FlatStyleSize, remaining - 1,
                    Append(styles, FlatStyleFromBytes(SubSeq(data, offset + 1, offset + FlatStyleSize))))

\* The header check of read_binary without the comparison of the magic.
HeaderAccepted_any_magic(data) == Len(data) >= HeaderSize

\* The two early returns of read_binary: the length and the magic number.
HeaderAccepted(data) ==
    /\ Len(data) >= HeaderSize
    /\ ReadU32(data, 0) = MAGIC_NUMBER

\* CompiledUnit::read_binary.
read_binary(data) ==
    IF ~HeaderAccepted(data) THEN None
    ELSE LET nodes == ReadNodes(data, HeaderSize, ReadU32(data, 20), NodeTableNew)
         IN  IF ~nodes.some THEN None
             ELSE IF nodes.value.offset + 4 > Len(data) THEN None
             ELSE LET styles == ReadStyles(data, nodes.value.offset + 4,
                                           ReadU32(data, nodes.value.offset), <<>>)
                  IN  IF ~styles.some THEN None
                      ELSE Some([nodes |-> nodes.value.nodes,
                                 properties |-> CompilerPropertyTableNew,
                                 styles |-> styles.value,
                                 environment_id |-> ReadU32(data, 8),
                                 version |-> ReadU32(data, 4),
                                 checksum |-> SubSeq(data, 13, 20)])

\* ============================================================ TextShaper

\* The f32 quantities of the shaper (font size, widths, heights) are held in
\* thousandths: 16.0 is 16000 and 200.05 is 200050.  The inputs are drawn from
\* values for which the f32 roundings of the code do not move a product or a
\* quotient across the integer its truncation is taken at.

\* compute_text_hash: the rolling hash of the text's bytes, as 8 bytes.
compute_text_hash(text) ==
    CHOOSE hash \in {U64ToLe(RollingHash(bytes, 1, Len(bytes), U64Zero)) :
                        bytes \in {text}} : TRUE

\* A width key that keeps the hundredths of the width.
WidthKey_hundredths(max_width) == max_width \div 10

\* (max_width * 10.0) as i32, for a width that is not negative.
WidthKey(max_width) == (max_width * 10) \div 1000

\* TextShaper::new(): empty cache, font_size 16.0, line_height 1.2.
TextShaperNew ==
    [cache |-> <<>>, font_size |-> 16000, line_height |-> 1200]

\* char::is_whitespace for a byte of ASCII text.
IsWhitespace(b) == b \in {9, 10, 11, 12, 13, 32}

\* text.split_whitespace(), each word as its length in bytes: `word` is the
\* length of the word being read at position i.
RECURSIVE WordLengths(_, _, _)
WordLengths(text, i, word) ==
    IF i > Len(text) THEN (IF word > 0 THEN <<word>> ELSE <<>>)
    ELSE IF IsWhitespace(text[i])
         THEN (IF word > 0 THEN <<word>> ELSE <<>>) \o WordLengths(text, i + 1, 0)
         ELSE WordLengths(text, i + 1, word + 1)

\* The line-breaking loop from word k on: `lines` are the lengths of the lines
\* pushed so far and `current` is current_line.len().
RECURSIVE BreakLines(_, _, _, _, _)
BreakLines(words, k, chars_per_line, lines, current) ==
    IF k > Len(words)
    THEN (IF current # 0 THEN Append(lines, current) ELSE lines)
    ELSE IF current + words[k] + 1 > chars_per_line /\ current # 0
         THEN BreakLines(words, k + 1, chars_per_line, Append(lines, current), words[k])
         ELSE BreakLines(words, k + 1, chars_per_line, lines,
                         (IF current # 0 THEN current + 1 ELSE 0) + words[k])

MaxOf(a, b) == IF a >= b THEN a ELSE b

RECURSIVE MaxLineLength(_, _)
MaxLineLength(lines, k) ==
    IF k > Len(lines) THEN 0 ELSE MaxOf(lines[k], MaxLineLength(lines, k + 1))

\* A miss path whose height is the lines' total, with no lower limit.
Shape_lines_total(shaper, text, max_width) ==
    LET char_width == (shaper.font_size * 6) \div 10
        chars_per_line == max_width \div char_width
        lines == BreakLines(WordLengths(text, 1, 0), 1, chars_per_line, <<>>, 0)
        line_height_px == (shaper.font_size * shaper.line_height) \div 1000
    IN  [text_hash |-> compute_text_hash(text),
         max_width |-> max_width,
         width |-> MaxLineLength(lines, 1) * char_width,
         height |-> Len(lines) * line_height_px,
         line_count |-> Len(lines),
         clusters |-> [i \in 1..Len(lines) |->
                         [x |-> 0, y |-> (i - 1) * line_height_px,
                          width |-> lines[i] * char_width,
                          height |-> line_height_px,
                          glyph_start |-> 0, glyph_count |-> lines[i]]]]

\* The ShapedParagraph the miss path of shape_paragraph builds.
Shape(shaper, text, max_width) ==
    LET char_width == (shaper.font_size * 6) \div 10
        chars_per_line == max_width \div char_width
        lines == BreakLines(WordLengths(text, 1, 0), 1, chars_per_line, <<>>, 0)
        line_height_px == (shaper.font_size * shaper.line_height) \div 1000
    IN  [text_hash |-> compute_text_hash(text),
         max_width |-> max_width,
         width |-> MaxLineLength(lines, 1) * char_width,
         height |-> MaxOf(Len(lines) * line_height_px, line_height_px),
         line_count |-> Len(lines),
         clusters |-> [i \in 1..Len(lines) |->
                         [x |-> 0, y |-> (i - 1) * line_height_px,
                          width |-> lines[i] * char_width,
                          height |-> line_height_px,
                          glyph_start |-> 0, glyph_count |-> lines[i]]]]

\* HashMap::insert on the cache, a function from keys to paragraphs.
CacheInsert(cache, key, shaped) ==
    [k \in DOMAIN cache \cup {key} |-> IF k = key THEN shaped ELSE cache[k]]

\* shape_paragraph: the shaper after the call and the paragraph returned.
shape_paragraph(shaper, text, max_width) ==
    LET cache_key == <<compute_text_hash(text), WidthKey(max_width)>>
    IN  IF cache_key \in DOMAIN shaper.cache
        THEN [shaper |-> shaper, result |-> shaper.cache[cache_key]]
        ELSE LET shaped == Shape(shaper, text, max_width)
             IN  [shaper |-> [shaper EXCEPT !.cache = CacheInsert(@, cache_key, shaped)],
                  result |-> shaped]

\* TextShaper::clear_cache.
clear_cache(shaper) == [shaper EXCEPT !.cache = <<>>]

AbsDiff(a, b) == IF a >= b THEN a - b ELSE b - a

\* A set_font_size that keeps the cache.
set_font_size_keep_cache(shaper, size) ==
    IF AbsDiff(shaper.font_size, size) > 10
    THEN [shaper EXCEPT !.font_size = size]
    ELSE shaper

\* A set_font_size that stores the size whenever it is called and clears the
\* cache only past the threshold.
set_font_size_always_store(shaper, size) ==
    IF AbsDiff(shaper.font_size, size) > 10
    THEN [shaper EXCEPT !.font_size = size, !.cache = <<>>]
    ELSE [shaper EXCEPT !.font_size = size]

\* TextShaper::set_font_size: (self.font_size - size).abs() > 0.01.
set_font_size(shaper, size) ==
    IF AbsDiff(shaper.font_size, size) > 10
    THEN [shaper EXCEPT !.font_size = size, !.cache = <<>>]
    ELSE shaper

\* ========================================================= PropertyTable

\* 16.0f32 (0x41800000), the default font size of a row.
F32_16 == 1098907648

\* Vec::resize(n, value): the first n elements, `value` where there were none.
VecResize(vec, n, value) ==
    [i \in 1..n |-> IF i <= Len(vec) THEN vec[i] ELSE value]

\* The value PropertyTable::resize of dop-content-ir gives each column for a
\* new row (Direction::Down, Pack::Start and Align::Start are 0).
PropertyDefaults ==
    [direction |-> 0, pack |-> 0, align |-> 0,
     width |-> F32_ZERO, height |-> F32_ZERO,
     gap_row |-> F32_ZERO, gap_col |-> F32_ZERO,
     inset_top |-> F32_ZERO, inset_right |-> F32_ZERO,
     inset_bottom |-> F32_ZERO, inset_left |-> F32_ZERO,
     offset_top |-> F32_ZERO, offset_right |-> F32_ZERO,
     offset_bottom |-> F32_ZERO, offset_left |-> F32_ZERO,
     fill_r |-> 0, fill_g |-> 0, fill_b |-> 0, fill_a |-> 0,
     border_radius |-> F32_ZERO,
     text_content |-> "", font_size |-> F32_16,
     text_color_r |-> 0, text_color_g |-> 0, text_color_b |-> 0,
     text_color_a |-> 255]

\* PropertyTable::new() of dop-content-ir: every column empty.
PropertyTableNew == [c \in DOMAIN PropertyDefaults |-> <<>>]

\* A resize that gives a new row an opaque fill.
resize_opaque_fill(self, n) ==
    [c \in DOMAIN self |->
        VecResize(self[c], n, IF c = "fill_a" THEN 255 ELSE PropertyDefaults[c])]

\* PropertyTable::resize of dop-content-ir: each column resized to n with its
\* default.
resize(self, n) ==
    [c \in DOMAIN self |-> VecResize(self[c], n, PropertyDefaults[c])]

\* Color { r, g, b, a }.
Color(r, g, b, a) == [r |-> r, g |-> g, b |-> b, a |-> a]

\* A set_fill that clamps an index beyond the table to the last row.
set_fill_clamped(self, idx, color) ==
    IF Len(self.fill_r) = 0 THEN self
    ELSE LET row == IF idx < Len(self.fill_r) THEN idx + 1 ELSE Len(self.fill_r)
         IN  [self EXCEPT !.fill_r[row] = color.r, !.fill_g[row] = color.g,
                          !.fill_b[row] = color.b, !.fill_a[row] = color.a]

\* PropertyTable::set_fill: idx is 0-based, the row written is idx + 1.
set_fill(self, idx, color) ==
    IF idx < Len(self.fill_r)
    THEN [self EXCEPT !.fill_r[idx + 1] = color.r, !.fill_g[idx + 1] = color.g,
                      !.fill_b[idx + 1] = color.b, !.fill_a[idx + 1] = color.a]
    ELSE self

\* PropertyTable::set_text_color.
set_text_color(self, idx, color) ==
    IF idx < Len(self.text_color_r)
    THEN [self EXCEPT !.text_color_r[idx + 1] = color.r,
                      !.text_color_g[idx + 1] = color.g,
                      !.text_color_b[idx + 1] = color.b,
                      !.text_color_a[idx + 1] = color.a]
    ELSE self

\* PropertyTable::set_inset.
set_inset(self, idx, top, right, bottom, left) ==
    IF idx < Len(self.inset_top)
    THEN [self EXCEPT !.inset_top[idx + 1] = top, !.inset_right[idx + 1] = right,
                      !.inset_bottom[idx + 1] = bottom, !.inset_left[idx + 1] = left]
    ELSE self

\* NodeTable::get_node: None for id 0 and ids beyond the table.
get_node(t, id) ==
    IF id = 0 \/ id > NodeTableLen(t) THEN None
    ELSE Some([node_type |-> t.node_types[id], parent |-> t.parents[id],
               first_child |-> t.first_children[id],
               next_sibling |-> t.next_siblings[id],
               style_id |-> t.style_ids[id]])

\* ======================================================= CompilerContext

\* The columns compile_unit copies from the source property table.
CopiedColumns_with_font_size ==
    {"direction", "pack", "align", "width", "height", "gap_row", "gap_col",
     "inset_top", "inset_right", "inset_bottom", "inset_left",
     "offset_top", "offset_right", "offset_bottom", "offset_left",
     "fill_r", "fill_g", "fill_b", "fill_a", "font_size"}

CopiedColumns ==
    {"direction", "pack", "align", "width", "height", "gap_row", "gap_col",
     "inset_top", "inset_right", "inset_bottom", "inset_left",
     "offset_top", "offset_right", "offset_bottom", "offset_left",
     "fill_r", "fill_g", "fill_b", "fill_a"}

\* compile_unit: a new unit with env_id, the properties resized to the node
\* count, every node column copied row by row, the copied property columns
\* of the rows the source has (i < source_props.direction.len()), the
\* flattened styles, and the checksum computed last.
compile_unit(flattenedStyles, source_nodes, source_props, env_id) ==
    LET n == NodeTableLen(source_nodes)
        resized == compiler_resize(CompilerPropertyTableNew, n)
    IN  compute_checksum(
          [CompiledUnitNew EXCEPT
             !.environment_id = env_id,
             !.nodes = [c \in DOMAIN NodeTableNew |->
                          [i \in 1..n |-> source_nodes[c][i]]],
             !.properties =
                 [c \in DOMAIN resized |->
                    [i \in 1..n |->
                       IF c \in CopiedColumns /\ i <= Len(source_props.direction)
                       THEN source_props[c][i]
                       ELSE resized[c][i]]],
             !.styles = flattenedStyles])

\* CompileOptions::default(), of which compile reads flatten_styles and
\* target_environments.
CompileOptionsDefault == [flatten_styles |-> TRUE, target_environments |-> <<>>]

\* A choice of targets that compiles nothing for an empty list.
TargetsOf_as_listed(opts) == opts.target_environments

\* The environments compile makes a unit for: 0 alone when none is listed.
TargetsOf(opts) ==
    IF opts.target_environments = <<>> THEN <<0>> ELSE opts.target_environments

\* HashMap::insert on units, a function from environment ids to units.
UnitsInsert(unitMap, env_id, u) ==
    [k \in DOMAIN unitMap \cup {env_id} |-> IF k = env_id THEN u ELSE unitMap[k]]

\* The loop of compile over the targets from position k on.
RECURSIVE CompileTargets(_, _, _, _, _, _)
CompileTargets(unitMap, targets, k, flattenedStyles, source_nodes, source_props) ==
    IF k > Len(targets) THEN unitMap
    ELSE CompileTargets(
           UnitsInsert(unitMap, targets[k],
                       compile_unit(flattenedStyles, source_nodes, source_props, targets[k])),
           targets, k + 1, flattenedStyles, source_nodes, source_props)

\* compile after its flatten step: the units map after the inserts.
compile(unitMap, opts, flattenedStyles, source_nodes, source_props) ==
    CompileTargets(unitMap, TargetsOf(opts), 1, flattenedStyles,
                   source_nodes, source_props)

\* ============================================================ StringPool

\* StringPool::new(): strings holds the reserved entry for StringId::NONE
\* (id k is at position k + 1 of the sequence) and lookup is empty.
StringPoolNew == [strings |-> <<"">>, lookup |-> <<>>]

\* An intern that never finds the string in lookup.
intern_no_lookup(self, s) ==
    [pool |-> [strings |-> Append(self.strings, s),
               lookup |-> [k \in DOMAIN self.lookup \cup {s} |-> Len(self.strings)]],
     id |-> Len(self.strings)]

\* StringPool::intern: the pool after the call and the id returned.
intern(self, s) ==
    IF s \in DOMAIN self.lookup
    THEN [pool |-> self, id |-> self.lookup[s]]
    ELSE [pool |-> [strings |-> Append(self.strings, s),
                    lookup |-> [k \in DOMAIN self.lookup \cup {s} |->
                                  IF k = s THEN Len(self.strings) ELSE self.lookup[k]]],
          id |-> Len(self.strings)]

\* StringPool::get: None for id 0 and ids at or beyond strings.len().
StringPoolGet(self, id) ==
    IF id = 0 \/ id >= Len(self.strings) THEN None
    ELSE Some(self.strings[id + 1])

\* StringPool::get_id.
get_id(self, s) == IF s \in DOMAIN self.lookup THEN Some(self.lookup[s]) ELSE None

\* StringPool::len: the strings but the reserved one.
StringPoolLen(self) == Len(self.strings) - 1

\* StringPool::clear.
StringPoolClear(self) == [strings |-> SubSeq(self.strings, 1, 1), lookup |-> <<>>]

\* ======================================================== ContentBuilder

\* The builder is its three fields and `panicked`, set when a call has
\* panicked; the NodeTable and the PropertyTable are those above.

\* ContentBuilder::new(): a Root node (type 0) with parent 0, one property
\* row, and the root as the insertion point.
ContentBuilderNew ==
    [nodes |-> create_node(NodeTableNew, 0, 0, 0),
     properties |-> resize(PropertyTableNew, 1),
     current_parent |-> create_node_id(NodeTableNew),
     panicked |-> FALSE]

\* The internal ContentBuilder::create_node: a node under current_parent with
\* style 0, and the property table resized to the node count.
builder_create_node(b, node_type) ==
    LET nodes == create_node(b.nodes, node_type, b.current_parent, 0)
    IN  [b EXCEPT !.nodes = nodes,
                  !.properties = resize(b.properties, NodeTableLen(nodes))]

\* begin_stack and begin_paragraph: the new node becomes the insertion point.
begin_container(b, node_type) ==
    [builder_create_node(b, node_type) EXCEPT
        !.current_parent = create_node_id(b.nodes)]

\* rect().
rect(b) == builder_create_node(b, 4)

\* span(text): a Span node (type 6) whose text_content is the text.
span(b, text) ==
    LET c   == builder_create_node(b, 6)
        idx == create_node_id(b.nodes) - 1
    IN  IF idx < Len(c.properties.text_content)
        THEN [c EXCEPT !.properties.text_content[idx + 1] = text]
        ELSE c

\* end(): the insertion point moves to the parent of the current node.
end(b) ==
    IF b.current_parent > 0 /\ get_node(b.nodes, b.current_parent).some
    THEN [b EXCEPT !.current_parent = get_node(b.nodes, b.current_parent).value.parent]
    ELSE b

\* `self.current_parent as usize - 1`: with current_parent 0 the subtraction
\* overflows, which panics in a build with overflow checks and wraps to
\* usize::MAX, an index beyond every table, in a build without them. The set
\* of outcomes.
CurrentIndex(b) ==
    IF b.current_parent = 0
    THEN {[kind |-> "panic", value |-> 0], [kind |-> "wrapped", value |-> 0]}
    ELSE {[kind |-> "index", value |-> b.current_parent - 1]}

\* direction(dir): the builders the call can leave.
direction(b, dir) ==
    {IF idx.kind = "panic" THEN [b EXCEPT !.panicked = TRUE]
     ELSE IF idx.kind = "index" /\ idx.value < Len(b.properties.direction)
          THEN [b EXCEPT !.properties.direction[idx.value + 1] = dir]
          ELSE b : idx \in CurrentIndex(b)}

\* ContentBuilder::inset(v): set_inset on the current node with v on the four
\* sides.
builder_inset(b, v) ==
    {IF idx.kind = "panic" THEN [b EXCEPT !.panicked = TRUE]
     ELSE IF idx.kind = "index"
          THEN [b EXCEPT !.properties = set_inset(@, idx.value, v, v, v, v)]
          ELSE b : idx \in CurrentIndex(b)}

\* fill(color): set_fill on the node created last, (nodes.len() - 1).max(0).
fill(b, color) ==
    [b EXCEPT !.properties = set_fill(@, NodeTableLen(b.nodes) - 1, color)]

\* ======================================================== initial states

\* Each specification below drives one component; the variables of the others
\* stay as constructed.

StyleInit ==
    /\ definitions = <<>>
    /\ flattened = <<>>
    /\ flattenState = "stale"

CodecIdle ==
    /\ unit = CompiledUnitNew
    /\ buf = <<>>
    /\ input = <<>>
    /\ decoded = None
    /\ pc = "idle"

NodeTableIdle == table = NodeTableNew

\* A FlatStyle::default() with its checksum computed.
ChecksumIdle ==
    /\ flatStyle = [FlatStyleDefault EXCEPT !.checksum = compute_style_checksum(FlatStyleDefault)]
    /\ prevChecksum = U64ToLe(U64Zero)
    /\ changedField = ""

\* TextShaper::new(), nothing called yet.
ShaperIdle ==
    /\ textShaper = TextShaperNew
    /\ lastShaped = None
    /\ shaperCall = [op |-> "new"]

\* PropertyTable::new(), nothing called yet.
TablesIdle ==
    /\ propertyTable = PropertyTableNew
    /\ tableCall = [op |-> "new"]

\* CompilerContext::new(), compile not called yet.
CompilerIdle ==
    /\ options = CompileOptionsDefault
    /\ units = <<>>
    /\ compiled = None

\* StringPool::new(), nothing called yet.
PoolIdle ==
    /\ stringPool = StringPoolNew
    /\ poolCall = [op |-> "new"]
    /\ handedOut = {}

BuilderIdle ==
    /\ styleCall = [op |-> "new"]
    /\ contentBuilder = ContentBuilderNew

SideIdle ==
    ChecksumIdle /\ ShaperIdle /\ TablesIdle /\ CompilerIdle /\ PoolIdle /\ BuilderIdle

CoreIdle == NodeTableIdle /\ StyleInit /\ CodecIdle

NodeInit == NodeTableIdle /\ StyleInit /\ CodecIdle /\ SideIdle

StyleTableInit == NodeTableIdle /\ StyleInit /\ CodecIdle /\ SideIdle

\* ------------------------------------------------ NodeTable state machine

\* table.create_node(node_type, parent, style_id), with any parent: 0, an
\* existing id, the id about to be assigned, or one beyond it.
CreateNode ==
    /\ NodeTableLen(table) < MaxNodes
    /\ \E node_type \in NodeTypeSamples, style_id \in StyleIdSamples,
          parent \in 0..(NodeTableLen(table) + 2) :
          table' = create_node(table, node_type, parent, style_id)
    /\ UNCHANGED <<definitions, flattened, flattenState, unit, buf, input, decoded, pc, sideVars>>

NodeNext == CreateNode

NodeSpec == NodeInit /\ [][NodeNext]_vars

\* Every create_node call was made with parent 0 or an id already in the table.
ValidParents(t) == \A i \in 1..NodeTableLen(t) : t.parents[i] < i

\* The ids created with parent argument p, in creation order.
CreatedWithParent(t, p) ==
    LET ids == [i \in 1..NodeTableLen(t) |-> i]
        IsChild(i) == t.parents[i] = p
    IN  SelectSeq(ids, IsChild)

\* C6. Tree-shape invariant: when every create_node call had parent 0 or an
\* existing id, get_children(p) is exactly the ids created with parent p in
\* creation order, and every id is in the child list of exactly one node
\* (its parent), or of none when it was created with parent 0.
C6_TreeShape ==
    ValidParents(table) =>
        /\ \A p \in 1..NodeTableLen(table) :
              get_children(table, p) = CreatedWithParent(table, p)
        /\ \A c \in 1..NodeTableLen(table) :
              LET holders == {p \in 1..NodeTableLen(table) :
                                 c \in Range(get_children(table, p))}
              IN  /\ holders = IF table.parents[c] = 0 THEN {} ELSE {table.parents[c]}
                  /\ \A p \in holders :
                        Cardinality({k \in 1..Len(get_children(table, p)) :
                                        get_children(table, p)[k] = c}) = 1

\* A root with two children created in that order, and nothing else.
C6_Witness ==
    /\ ValidParents(table)
    /\ NodeTableLen(table) = 3
    /\ table.parents = <<0, 1, 1>>
    /\ get_children(table, 1) = <<2, 3>>

\* ------------------------------------------------ StyleTable state machine

\* The ids create_style is called with, the parents inherit_style names, and
\* the (name, value) pairs set_property is given: width and height as in
\* test_style_flattening, a width of the wrong tag, and max_width, a name the
\* match of flatten() has no arm for.
StyleDefIds == {1, 2}
ParentIdSamples == {0, 1, 2}
PropertySamples ==
    {<<"width", PvFloat(F32_100)>>, <<"height", PvFloat(F32_50)>>,
     <<"width", PvInt(7)>>, <<"max_width", PvFloat(F32_100)>>}

CreateStyle ==
    /\ Len(definitions) < MaxStyles
    /\ \E id \in StyleDefIds : definitions' = create_style(definitions, id)
    /\ flattenState' = "stale"
    /\ UNCHANGED <<table, flattened, unit, buf, input, decoded, pc, sideVars>>

InheritStyle ==
    /\ \E style_id \in StyleDefIds, parent_id \in ParentIdSamples :
          definitions' = inherit_style(definitions, style_id, parent_id)
    /\ flattenState' = "stale"
    /\ UNCHANGED <<table, flattened, unit, buf, input, decoded, pc, sideVars>>

SetProperty ==
    /\ \E style_id \in StyleDefIds, nv \in PropertySamples :
          definitions' = set_property(definitions, style_id, nv[1], nv[2])
    /\ flattenState' = "stale"
    /\ UNCHANGED <<table, flattened, unit, buf, input, decoded, pc, sideVars>>

Flatten ==
    /\ flattened' \in flatten(definitions)
    /\ flattenState' = IF flattenState = "stale" THEN "flattened" ELSE "reflattened"
    /\ UNCHANGED <<table, definitions, unit, buf, input, decoded, pc, sideVars>>

StyleNext == CreateStyle \/ InheritStyle \/ SetProperty \/ Flatten

StyleSpec == StyleTableInit /\ [][StyleNext]_vars

\* --------------------------------------------------- codec state machine

\* The (node type, style id) pairs the unit's nodes are created with, the
\* environment ids, and the bytes a header byte is overwritten with.
UnitNodeSamples == {<<0, 0>>, <<8, 1>>}
EnvironmentSamples == {0, 1}
ByteSamples == {0, 2, 255}

\* The flattened records the unit's styles are pushed from: what flatten()
\* makes of a style with width = 100.0 and height = 50.0 and of an empty one.
SampleDefinitions ==
    set_property(set_property(create_style(create_style(<<>>, 1), 2),
                              1, "width", PvFloat(F32_100)),
                 1, "height", PvFloat(F32_50))

SampleFlatStyles == UNION {Range(v) : v \in flatten(SampleDefinitions)}

CodecInit ==
    /\ NodeTableIdle
    /\ StyleInit
    /\ unit = CompiledUnitNew
    /\ buf = <<>>
    /\ input = <<>>
    /\ decoded = None
    /\ pc = "build"
    /\ SideIdle

\* unit.nodes.create_node(..) with parent 0 or an existing id.
UnitCreateNode ==
    /\ pc = "build"
    /\ NodeTableLen(unit.nodes) < MaxUnitNodes
    /\ \E s \in UnitNodeSamples, parent \in 0..NodeTableLen(unit.nodes) :
          unit' = [unit EXCEPT !.nodes = create_node(@, s[1], parent, s[2])]
    /\ UNCHANGED <<table, definitions, flattened, flattenState, buf, input, decoded, pc, sideVars>>

\* unit.styles.push(flat), as compile_unit does for each flattened style.
UnitPushStyle ==
    /\ pc = "build"
    /\ Len(unit.styles) < MaxUnitStyles
    /\ \E flat \in SampleFlatStyles :
          unit' = [unit EXCEPT !.styles = Append(@, flat)]
    /\ UNCHANGED <<table, definitions, flattened, flattenState, buf, input, decoded, pc, sideVars>>

\* unit.environment_id = env_id; unit.compute_checksum(): the unit is complete.
UnitSeal ==
    /\ pc = "build"
    /\ \E env_id \in EnvironmentSamples :
          unit' = compute_checksum([unit EXCEPT !.environment_id = env_id])
    /\ pc' = "sealed"
    /\ UNCHANGED <<table, definitions, flattened, flattenState, buf, input, decoded, sideVars>>

\* buf = unit.write_binary()
WriteBinary ==
    /\ pc = "sealed"
    /\ buf' = write_binary(unit)
    /\ pc' = "written"
    /\ UNCHANGED <<table, definitions, flattened, flattenState, unit, input, decoded, sideVars>>

\* One byte of the header of the written buffer is overwritten.
CorruptHeader ==
    /\ pc = "written"
    /\ \E i \in 1..HeaderSize, b \in ByteSamples :
          /\ buf[i] # b
          /\ buf' = [buf EXCEPT ![i] = b]
    /\ pc' = "corrupted"
    /\ UNCHANGED <<table, definitions, flattened, flattenState, unit, input, decoded, sideVars>>

\* CompiledUnit::read_binary(&buf[..k]) on the written buffer, whole or cut.
ReadPrefix ==
    /\ pc = "written"
    /\ \E k \in 0..Len(buf) :
          /\ input' = SubSeq(buf, 1, k)
          /\ decoded' = read_binary(SubSeq(buf, 1, k))
    /\ pc' = "read"
    /\ UNCHANGED <<table, definitions, flattened, flattenState, unit, buf, sideVars>>

\* CompiledUnit::read_binary(&buf) on the buffer with the overwritten byte.
ReadCorrupted ==
    /\ pc = "corrupted"
    /\ input' = buf
    /\ decoded' = read_binary(buf)
    /\ pc' = "read"
    /\ UNCHANGED <<table, definitions, flattened, flattenState, unit, buf, sideVars>>

CodecNext ==
    \/ UnitCreateNode
    \/ UnitPushStyle
    \/ UnitSeal
    \/ WriteBinary
    \/ CorruptHeader
    \/ ReadPrefix
    \/ ReadCorrupted

CodecSpec == CodecInit /\ [][CodecNext]_vars

\* --------------------------------------------------- codec properties

\* read_binary has just run on exactly the bytes write_binary made of `unit`.
ReadBackWhole == pc = "read" /\ input = write_binary(unit)

\* C1: round-trip law.  read_binary(u.write_binary()) is Some(u') where u' has
\* as many nodes as u, the checksum of u, as many styles as u, and at every
\* index a style record equal field by field (the per-style checksum
\* included) to the record of u at that index.
C1_RoundTrip ==
    ReadBackWhole =>
        /\ decoded.some
        /\ NodeTableLen(decoded.value.nodes) = NodeTableLen(unit.nodes)
        /\ decoded.value.checksum = unit.checksum
        /\ Len(decoded.value.styles) = Len(unit.styles)
        /\ \A i \in 1..Len(unit.styles) :
              \A f \in DOMAIN unit.styles[i] :
                 decoded.value.styles[i][f] = unit.styles[i][f]

C1_Witness ==
    /\ ReadBackWhole
    /\ decoded.some
    /\ NodeTableLen(unit.nodes) = MaxUnitNodes
    /\ Len(decoded.value.styles) = 1
    /\ unit.styles[1].width = F32_100
    /\ decoded.value.styles[1].width = F32_100
    /\ decoded.value.styles[1].max_width = F32_MAX
    /\ decoded.value.styles[1].checksum = <<244, 119, 219, 119, 238, 69, 102, 93>>

\* C2: read_binary(write_binary(u)) has the version and the environment_id of
\* u, as many nodes, and for every node index the node_type, parent,
\* first_child, next_sibling and style_id of u's node at that index.
C2_RoundTripHeaderAndNodes ==
    ReadBackWhole =>
        /\ decoded.some
        /\ decoded.value.version = unit.version
        /\ decoded.value.environment_id = unit.environment_id
        /\ NodeTableLen(decoded.value.nodes) = NodeTableLen(unit.nodes)
        /\ \A i \in 1..NodeTableLen(unit.nodes) :
              /\ decoded.value.nodes.node_types[i] = unit.nodes.node_types[i]
              /\ decoded.value.nodes.parents[i] = unit.nodes.parents[i]
              /\ decoded.value.nodes.first_children[i] = unit.nodes.first_children[i]
              /\ decoded.value.nodes.next_siblings[i] = unit.nodes.next_siblings[i]
              /\ decoded.value.nodes.style_ids[i] = unit.nodes.style_ids[i]

C2_Witness ==
    /\ ReadBackWhole
    /\ decoded.some
    /\ decoded.value.environment_id = 1
    /\ NodeTableLen(decoded.value.nodes) = 2
    /\ decoded.value.nodes.node_types = <<0, 8>>
    /\ decoded.value.nodes.parents = <<0, 1>>
    /\ decoded.value.nodes.first_children = <<2, 0>>
    /\ decoded.value.nodes.style_ids = <<0, 1>>

\* read_binary has just run on a buffer shorter than the header or on a
\* proper prefix of the bytes write_binary made of `unit`.
ReadTruncated ==
    /\ pc = "read"
    /\ \/ Len(input) < 24
       \/ \E whole \in {write_binary(unit)} :
             /\ Len(input) < Len(whole)
             /\ input = SubSeq(whole, 1, Len(input))

\* C3: truncated input is rejected.  read_binary returns None for every buffer
\* shorter than the 24-byte header and for every proper prefix of
\* write_binary(u).
C3_TruncatedRejected == ReadTruncated => decoded = None

\* The header and the node table are whole and the last style record is one
\* byte short.
C3_Witness ==
    /\ ReadTruncated
    /\ NodeTableLen(unit.nodes) = 1
    /\ Len(unit.styles) = 1
    /\ Len(input) = 24 + 17 + 4 + 84 - 1
    /\ decoded = None

\* The first four bytes of the buffer are 0x434D4D42 in little-endian order.
StartsWithMagic(bytes) ==
    Len(bytes) >= 4 /\ SubSeq(bytes, 1, 4) = <<66, 77, 77, 67>>

\* C4: read_binary returns None for every buffer whose first four bytes are
\* not the magic number 0x434D4D42, whatever follows them, and write_binary
\* always emits that magic as its first four bytes.
C4_WrongMagicRejected ==
    /\ (pc = "read" /\ ~StartsWithMagic(input)) => decoded = None
    /\ pc = "written" => StartsWithMagic(buf)

\* A whole buffer in which only a byte of the magic differs from what
\* write_binary made.
C4_Witness ==
    /\ pc = "read"
    /\ Len(input) = Len(write_binary(unit))
    /\ ~StartsWithMagic(input)
    /\ SubSeq(input, 5, Len(input)) = SubSeq(write_binary(unit), 5, Len(input))
    /\ Len(unit.styles) = 1
    /\ decoded = None

\* read_binary has just run on the bytes write_binary made of `unit` with only
\* the version field changed, to something other than FORMAT_VERSION.
ReadWrongVersion ==
    /\ pc = "read"
    /\ \E whole \in {write_binary(unit)} :
          /\ Len(input) = Len(whole)
          /\ \A i \in 1..Len(whole) : i \notin 5..8 => input[i] = whole[i]
    /\ SubSeq(input, 5, 8) # <<1, 0, 0, 0>>

\* C5: a buffer with a wrong format version is malformed input.  read_binary
\* returns None for an otherwise well-formed buffer whose version field is not
\* the current format version (1).
C5_WrongVersionRejected == ReadWrongVersion => decoded = None

\* ------------------------------------------------- StyleTable properties

\* `flattened` is what flatten() made of the current definitions.
FlattenedIsFresh == flattenState # "stale"

\* The FlatStyle fields a definition has an own property for.
OwnFields(def) ==
    (DOMAIN def.properties \cap FlatValueFields)
    \cup (IF "fill" \in DOMAIN def.properties
          THEN {"fill_r", "fill_g", "fill_b", "fill_a"} ELSE {})

\* Definition i is the style that definition j names as its parent.
IsParentOf(i, j) ==
    /\ definitions[j].parent_id > 0
    /\ i = FindDefinition(definitions, definitions[j].parent_id)

\* C7. Inheritance resolution: after flatten(), a definition B whose parent A
\* is declared earlier has, in every field B has no own property for, the
\* flattened value of A.
C7_InheritsFromEarlierParent ==
    FlattenedIsFresh =>
        \A j \in 1..Len(definitions) : \A i \in 1..(j - 1) :
            IsParentOf(i, j) =>
                \A f \in FlatValueFields \ OwnFields(definitions[j]) :
                    flattened[j][f] = flattened[i][f]

\* The value flatten() gives field f of a record that starts from the defaults
\* and has only the definition's own properties applied.
OwnOnlyValue(def, f) ==
    LET p == def.properties
        Has(name, tag) == name \in DOMAIN p /\ p[name].tag = tag
    IN  CASE f \in FloatPropertyNames /\ Has(f, "Float") -> p[f].v
          [] f = "direction" /\ Has(f, "Direction") -> p[f].v
          [] f = "pack" /\ Has(f, "Pack") -> p[f].v
          [] f = "align" /\ Has(f, "Align") -> p[f].v
          [] f = "fill_r" /\ Has("fill", "Color") -> p["fill"].r
          [] f = "fill_g" /\ Has("fill", "Color") -> p["fill"].g
          [] f = "fill_b" /\ Has("fill", "Color") -> p["fill"].b
          [] f = "fill_a" /\ Has("fill", "Color") -> p["fill"].a
          [] f \in {"max_width", "max_height"} -> F32_MAX
          [] OTHER -> 0

\* C8. Forward-only inheritance: after flatten(), a definition whose parent
\* is declared later has the default record with only its own properties
\* applied, whatever the parent's properties are.
C8_NoInheritanceFromLaterParent ==
    FlattenedIsFresh =>
        \A j \in 1..Len(definitions) : \A i \in (j + 1)..Len(definitions) :
            IsParentOf(i, j) =>
                \A f \in FlatValueFields :
                    flattened[j][f] = OwnOnlyValue(definitions[j], f)

\* B is declared first and names A, declared after it with width = 100.0, as
\* its parent; B, with no own width, is flattened to width 0.0.
C8_Witness ==
    /\ FlattenedIsFresh
    /\ Len(definitions) = 2
    /\ IsParentOf(2, 1)
    /\ "width" \notin DOMAIN definitions[1].properties
    /\ "width" \in DOMAIN definitions[2].properties
    /\ flattened[2].width = F32_100
    /\ flattened[1].width = F32_ZERO

\* C9. Flattening determinism: a flatten() that follows a flatten() with no
\* create_style, inherit_style or set_property call in between leaves
\* `flattened` as it was, in whatever order the property maps are iterated.
C9_FlattenTwiceSame ==
    [][(FlattenedIsFresh /\ flattenState' = "reflattened") => flattened' = flattened]_vars

\* flatten() has run twice in a row on two definitions, one of them with two
\* properties (so that its map has two iteration orders).
C9_Witness ==
    /\ flattenState = "reflattened"
    /\ Len(flattened) = 2
    /\ \E i \in 1..Len(definitions) :
          /\ DOMAIN definitions[i].properties = {"width", "height"}
          /\ flattened[i].width = F32_100
          /\ flattened[i].height = F32_50

\* The rolling hash of the claim: start 0, hash = hash * 31 + byte, modulo
\* 2^64, over the given bytes.
RECURSIVE Hash31(_, _)
Hash31(bytes, hash) ==
    IF Len(bytes) = 0 THEN hash
    ELSE IF Len(bytes) = 1 THEN U64Mul31Add(hash, bytes[1])
    ELSE CHOOSE h \in
             {Hash31(back, first) :
                 back \in {SubSeq(bytes, (Len(bytes) \div 2) + 1, Len(bytes))},
                 first \in {Hash31(SubSeq(bytes, 1, Len(bytes) \div 2), hash)}} : TRUE

\* C10. After every flatten(), the checksum of each record of `flattened` is
\* the rolling hash of all bytes of the record except its last 8.
C10_ChecksumReflectsFields ==
    \A i \in 1..Len(flattened) :
        \A bytes \in {FlatStyleBytes(flattened[i])} :
            /\ Len(bytes) = FlatStyleSize
            /\ \A hashed \in {SubSeq(bytes, 1, Len(bytes) - 8)} :
                  flattened[i].checksum = U64ToLe(Hash31(hashed, U64Zero))

\* A record flattened from width = 100.0 and height = 50.0 by a definition
\* that names a parent; its checksum is 0x5D6645EE77DB77F4, the hash of the
\* 76 bytes the packed record has before its checksum.
C10_Witness ==
    /\ FlattenedIsFresh
    /\ \E i \in 1..Len(flattened) :
          /\ definitions[i].parent_id > 0
          /\ flattened[i].width = F32_100
          /\ flattened[i].height = F32_50
          /\ flattened[i].checksum = <<244, 119, 219, 119, 238, 69, 102, 93>>

\* ------------------------------------------- checksum state machine

\* The values a field of flatStyle is assigned: for a u8 field, and bit patterns
\* for an f32 field (0.0, 50.0, 100.0 and 0x42A90100 = 84.501953125).
U8Samples == {0, 1, 255}
F32Samples == {F32_ZERO, F32_50, F32_100, 1118372096}
AssignedFields == {"direction", "fill_a", "width", "height"}

FieldSamples(f) == IF f \in Range(FlatF32Fields) THEN F32Samples ELSE U8Samples

\* flatStyle.f = v with a v other than the field's value, then
\* flatStyle.checksum = compute_style_checksum(&flatStyle), as flatten() ends a record.
AssignField ==
    /\ \E f \in AssignedFields :
          \E v \in FieldSamples(f) \ {flatStyle[f]} :
             \E next \in {[flatStyle EXCEPT ![f] = v]} :
                flatStyle' = [next EXCEPT !.checksum = compute_style_checksum(next)]
                /\ changedField' = f
    /\ prevChecksum' = flatStyle.checksum
    /\ UNCHANGED <<coreVars, shaperVars, tableVars, compilerVars, poolVars, builderVars>>

ChecksumNext == AssignField

ChecksumInit == CoreIdle /\ SideIdle

ChecksumSpec == ChecksumInit /\ [][ChecksumNext]_vars

\* --------------------------------------------------- checksum properties

MaxCacheEntries == 2

\* The texts given to shape_paragraph, as their bytes: "Hello World", "a b"
\* and "`?b" (the last two have the same hash and different words), the
\* empty text, and a space followed by a tab.
TextSamples ==
    {<<72, 101, 108, 108, 111, 32, 87, 111, 114, 108, 100>>,
     <<97, 32, 98>>,
     <<96, 63, 98>>,
     <<>>,
     <<32, 9>>}

\* The widths given to shape_paragraph: 200.0, 200.05, 210.0 and 20.0.
WidthSamples == {200000, 200050, 210000, 20000}

\* The sizes given to set_font_size: 16.0, 16.005 and 20.0.
FontSizeSamples == {16000, 16005, 20000}

\* shaper.shape_paragraph(text, max_width)
ShapeParagraph ==
    /\ \E text \in TextSamples, max_width \in WidthSamples :
          \E r \in {shape_paragraph(textShaper, text, max_width)} :
             /\ Cardinality(DOMAIN r.shaper.cache) <= MaxCacheEntries
             /\ textShaper' = r.shaper
             /\ lastShaped' = Some(r.result)
             /\ shaperCall' = [op |-> "shape_paragraph", text |-> text, max_width |-> max_width]
    /\ UNCHANGED <<coreVars, checksumVars, tableVars, compilerVars, poolVars, builderVars>>

\* shaper.set_font_size(size)
SetFontSize ==
    /\ \E size \in FontSizeSamples :
          /\ textShaper' = set_font_size(textShaper, size)
          /\ shaperCall' = [op |-> "set_font_size", size |-> size]
    /\ UNCHANGED <<coreVars, checksumVars, tableVars, compilerVars, lastShaped, poolVars, builderVars>>

\* shaper.clear_cache()
ClearCache ==
    /\ textShaper' = clear_cache(textShaper)
    /\ shaperCall' = [op |-> "clear_cache"]
    /\ UNCHANGED <<coreVars, checksumVars, tableVars, compilerVars, lastShaped, poolVars, builderVars>>

ShaperNext ==
    \/ ShapeParagraph
    \/ SetFontSize
    \/ ClearCache

ShaperInit == CoreIdle /\ SideIdle

ShaperSpec == ShaperInit /\ [][ShaperNext]_vars

\* ------------------------------------------------- TextShaper properties

\* The cache key of a call: the rolling hash of the text's bytes and the
\* width times ten, truncated.
KeyOf(text, max_width) == <<U64ToLe(Hash31(text, U64Zero)), max_width \div 100>>

\* C12: shaping cache keying.  A shape_paragraph(text, w) whose key (rolling
\* hash of the text's bytes, trunc(w * 10)) is in the cache returns the stored
\* paragraph and leaves the cache as it is; one whose key is absent returns a
\* paragraph for that text and width and adds exactly one entry, that
\* paragraph, under that key.
C12_CacheKeying ==
    [][shaperCall'.op = "shape_paragraph" =>
         \A key \in {KeyOf(shaperCall'.text, shaperCall'.max_width)} :
            IF key \in DOMAIN textShaper.cache
            THEN /\ lastShaped' = Some(textShaper.cache[key])
                 /\ textShaper' = textShaper
            ELSE /\ lastShaped'.some
                 /\ lastShaped'.value.text_hash = key[1]
                 /\ lastShaped'.value.max_width = shaperCall'.max_width
                 /\ DOMAIN textShaper'.cache = DOMAIN textShaper.cache \cup {key}
                 /\ textShaper'.cache[key] = lastShaped'.value
                 /\ \A k \in DOMAIN textShaper.cache :
                       textShaper'.cache[k] = textShaper.cache[k]
                 /\ textShaper'.font_size = textShaper.font_size]_vars

\* "Hello World" was shaped at 200.0, then at 200.05 (a hit: the paragraph
\* returned is the one stored for 200.0), and 210.0 has its own entry.
C12_Witness ==
    /\ shaperCall = [op |-> "shape_paragraph",
                     text |-> <<72, 101, 108, 108, 111, 32, 87, 111, 114, 108, 100>>,
                     max_width |-> 200050]
    /\ lastShaped.some
    /\ lastShaped.value.max_width = 200000
    /\ KeyOf(shaperCall.text, 200000) \in DOMAIN textShaper.cache
    /\ KeyOf(shaperCall.text, 210000) \in DOMAIN textShaper.cache
    /\ Cardinality(DOMAIN textShaper.cache) = 2

\* C13: font-size invalidation.  set_font_size(s) with |font_size - s| > 0.01
\* sets font_size to s and leaves the cache empty, so that every later
\* shape_paragraph finds its key absent; with |font_size - s| <= 0.01 it
\* changes neither font_size nor the cache.
C13_FontSizeInvalidates ==
    [][shaperCall'.op = "set_font_size" =>
         IF AbsDiff(textShaper.font_size, shaperCall'.size) > 10
         THEN /\ textShaper'.font_size = shaperCall'.size
              /\ DOMAIN textShaper'.cache = {}
         ELSE textShaper' = textShaper]_vars

\* A paragraph was shaped at 16.0, so the cache held it, and set_font_size(20.0)
\* has left the cache empty.
C13_Witness ==
    /\ shaperCall = [op |-> "set_font_size", size |-> 20000]
    /\ lastShaped.some
    /\ lastShaped.value.height = 19200
    /\ textShaper.font_size = 20000
    /\ DOMAIN textShaper.cache = {}

\* ---------------------------------------- node and property table calls

\* The most rows the node table and the property table are given.
MaxRows == 2

\* The colours given to set_fill and set_text_color, and the inset values
\* (1.0, 2.0, 3.0, 4.0 as top, right, bottom, left).
FillSamples == {Color(1, 2, 3, 4)}
TextColorSamples == {Color(5, 6, 7, 8)}
InsetSamples == {<<1065353216, 1073741824, 1077936128, 1082130432>>}

\* table.create_node(NodeType::Rect, parent, 0) with parent 0 or an existing
\* id.
TableCreateNode ==
    /\ NodeTableLen(table) < MaxRows
    /\ \E parent \in 0..NodeTableLen(table) :
          table' = create_node(table, 4, parent, 0)
    /\ tableCall' = [op |-> "create_node", id |-> create_node_id(table)]
    /\ UNCHANGED <<styleVars, codecVars, checksumVars, shaperVars, compilerVars, propertyTable, poolVars, builderVars>>

\* table.get_node(id), any id up to one beyond the bound.
GetNode ==
    /\ \E id \in 0..(MaxRows + 1) :
          tableCall' = [op |-> "get_node", id |-> id, result |-> get_node(table, id)]
    /\ UNCHANGED <<coreVars, checksumVars, shaperVars, compilerVars, propertyTable, poolVars, builderVars>>

\* table.get_children(id)
GetChildren ==
    /\ \E id \in 0..(MaxRows + 1) :
          tableCall' = [op |-> "get_children", id |-> id,
                        result |-> get_children(table, id)]
    /\ UNCHANGED <<coreVars, checksumVars, shaperVars, compilerVars, propertyTable, poolVars, builderVars>>

\* propertyTable.resize(n)
Resize ==
    /\ \E n \in 0..MaxRows :
          /\ propertyTable' = resize(propertyTable, n)
          /\ tableCall' = [op |-> "resize", n |-> n,
                           from |-> Len(propertyTable.direction)]
    /\ UNCHANGED <<coreVars, checksumVars, shaperVars, compilerVars, poolVars, builderVars>>

\* propertyTable.set_fill(idx, color), any 0-based idx up to the bound.
SetFill ==
    /\ \E idx \in 0..MaxRows, color \in FillSamples :
          /\ propertyTable' = set_fill(propertyTable, idx, color)
          /\ tableCall' = [op |-> "set_fill", idx |-> idx]
    /\ UNCHANGED <<coreVars, checksumVars, shaperVars, compilerVars, poolVars, builderVars>>

\* propertyTable.set_text_color(idx, color)
SetTextColor ==
    /\ \E idx \in 0..MaxRows, color \in TextColorSamples :
          /\ propertyTable' = set_text_color(propertyTable, idx, color)
          /\ tableCall' = [op |-> "set_text_color", idx |-> idx]
    /\ UNCHANGED <<coreVars, checksumVars, shaperVars, compilerVars, poolVars, builderVars>>

\* propertyTable.set_inset(idx, top, right, bottom, left)
SetInset ==
    /\ \E idx \in 0..MaxRows, inset \in InsetSamples :
          /\ propertyTable' = set_inset(propertyTable, idx, inset[1], inset[2],
                                        inset[3], inset[4])
          /\ tableCall' = [op |-> "set_inset", idx |-> idx]
    /\ UNCHANGED <<coreVars, checksumVars, shaperVars, compilerVars, poolVars, builderVars>>

TablesNext ==
    \/ TableCreateNode
    \/ GetNode
    \/ GetChildren
    \/ Resize
    \/ SetFill
    \/ SetTextColor
    \/ SetInset

TablesInit == CoreIdle /\ SideIdle

TablesSpec == TablesInit /\ [][TablesNext]_vars

\* ------------------------------------ node and property table properties

\* C14: bounds safety.  get_children(id) returns the empty sequence and
\* get_node(id) returns no value when id is 0 or greater than the node count,
\* and set_fill, set_text_color and set_inset with an index at or beyond the
\* table length change nothing; none of these calls modifies any state.
C14_BoundsSafety ==
    [][/\ (/\ tableCall'.op \in {"get_node", "get_children"}
           /\ (tableCall'.id = 0 \/ tableCall'.id > Len(table.node_types)))
          => /\ tableCall'.result = (IF tableCall'.op = "get_node"
                                     THEN [some |-> FALSE] ELSE <<>>)
             /\ table' = table
             /\ propertyTable' = propertyTable
       /\ (/\ tableCall'.op \in {"set_fill", "set_text_color", "set_inset"}
           /\ tableCall'.idx >= Len(propertyTable.direction))
          => /\ propertyTable' = propertyTable
             /\ table' = table]_vars

\* set_fill(2, ..) was called on a property table of two rows, whose first
\* row has a fill set earlier, and (a test of the getters' case apart) the
\* node table has nodes.
C14_Witness ==
    /\ tableCall = [op |-> "set_fill", idx |-> 2]
    /\ Len(propertyTable.fill_a) = 2
    /\ propertyTable.fill_a = <<4, 0>>
    /\ Len(table.node_types) = 1

\* get_node(2) was called on a node table of one node and returned no value.
C14_GetterCase ==
    /\ tableCall = [op |-> "get_node", id |-> 2, result |-> [some |-> FALSE]]
    /\ Len(table.node_types) = 1

\* The columns of the property table C15 names a default for.
DocumentedDefaults ==
    [direction |-> 0, pack |-> 0, align |-> 0, width |-> 0, height |-> 0,
     gap_row |-> 0, gap_col |-> 0,
     inset_top |-> 0, inset_right |-> 0, inset_bottom |-> 0, inset_left |-> 0,
     offset_top |-> 0, offset_right |-> 0, offset_bottom |-> 0, offset_left |-> 0,
     fill_r |-> 0, fill_g |-> 0, fill_b |-> 0, fill_a |-> 0,
     font_size |-> 1098907648,
     text_color_r |-> 0, text_color_g |-> 0, text_color_b |-> 0,
     text_color_a |-> 255]

\* C15: resize(n) leaves every backing array with length exactly n, keeps the
\* values of all rows that existed before with index < n, and fills every new
\* row with the documented defaults: direction=Down, pack=Start, align=Start,
\* width/height/gaps/inset/offset=0, fill RGBA=(0,0,0,0), font_size=16.0,
\* text colour=(0,0,0,255).
C15_ResizeDefaults ==
    [][tableCall'.op = "resize" =>
         \A c \in DOMAIN propertyTable :
            /\ Len(propertyTable'[c]) = tableCall'.n
            /\ \A i \in 1..tableCall'.n :
                  IF i <= Len(propertyTable[c])
                  THEN propertyTable'[c][i] = propertyTable[c][i]
                  ELSE c \in DOMAIN DocumentedDefaults
                          => propertyTable'[c][i] = DocumentedDefaults[c]]_vars

\* resize(2) was called on a table of one row whose fill, text colour and
\* inset had been set: row 1 keeps them and row 2 has the defaults.
C15_Witness ==
    /\ tableCall = [op |-> "resize", n |-> 2, from |-> 1]
    /\ propertyTable.fill_a = <<4, 0>>
    /\ propertyTable.text_color_a = <<8, 255>>
    /\ propertyTable.inset_top = <<1065353216, 0>>
    /\ propertyTable.font_size = <<1098907648, 1098907648>>
    /\ Len(propertyTable.text_content) = 2

\* ------------------------------------------ CompilerContext state machine

\* The options a context is made with (CompilerContext::with_options).
OptionSamples ==
    {[flatten_styles |-> f, target_environments |-> t] :
        f \in BOOLEAN, t \in {<<>>, <<2>>, <<1, 2>>, <<1, 1>>}}

\* The node tables create_node builds with k nodes, the first under parent 0
\* and each later one under the node before it.
RECURSIVE NodeTablesOf(_)
NodeTablesOf(k) ==
    IF k = 0 THEN {NodeTableNew}
    ELSE {create_node(t, s[1], k - 1, s[2]) :
             t \in NodeTablesOf(k - 1), s \in UnitNodeSamples}

SourceNodeTables == UNION {NodeTablesOf(k) : k \in 0..MaxUnitNodes}

\* A source row with a value of its own in every column, the text columns
\* included.
SampleSourceRow ==
    [direction |-> 2, pack |-> 3, align |-> 1,
     width |-> F32_100, height |-> F32_50,
     gap_row |-> 1065353216, gap_col |-> 1073741824,
     inset_top |-> 1077936128, inset_right |-> 1082130432,
     inset_bottom |-> 1084227584, inset_left |-> 1086324736,
     offset_top |-> 1088421888, offset_right |-> 1090519040,
     offset_bottom |-> 1091567616, offset_left |-> 1092616192,
     fill_r |-> 11, fill_g |-> 12, fill_b |-> 13, fill_a |-> 14,
     text_id |-> 7, font_size |-> F32_50,
     color_r |-> 21, color_g |-> 22, color_b |-> 23, color_a |-> 24]

\* The source property tables: resized to n rows, the first row (if any) set
\* to SampleSourceRow.
SourcePropertyTables ==
    {[c \in DOMAIN CompilerPropertyDefaults |->
        [i \in 1..n |-> IF i = 1 THEN SampleSourceRow[c]
                        ELSE CompilerPropertyDefaults[c]]] : n \in 0..MaxUnitNodes}

\* CompilerContext::with_options(options)
CompileInit ==
    /\ CoreIdle
    /\ ChecksumIdle
    /\ ShaperIdle
    /\ TablesIdle
    /\ PoolIdle
    /\ BuilderIdle
    /\ options \in OptionSamples
    /\ units = <<>>
    /\ compiled = None

\* ctx.style_table.create_style(id) with the next id.
ContextCreateStyle ==
    /\ Len(definitions) < MaxUnitStyles
    /\ definitions' = create_style(definitions, Len(definitions) + 1)
    /\ flattenState' = "stale"
    /\ UNCHANGED <<table, flattened, codecVars, checksumVars, shaperVars, tableVars,
                   compilerVars, poolVars, builderVars>>

\* ctx.style_table.set_property(id, "width", Float(100.0))
ContextSetProperty ==
    /\ \E id \in 1..Len(definitions) :
          definitions' = set_property(definitions, id, "width", PvFloat(F32_100))
    /\ flattenState' = "stale"
    /\ UNCHANGED <<table, flattened, codecVars, checksumVars, shaperVars, tableVars,
                   compilerVars, poolVars, builderVars>>

\* ctx.compile(&source_nodes, &source_props): flatten() if the options say so,
\* then a unit for each target; errors is empty, so compile returns true.
Compile ==
    /\ \E flattenedStyles \in (IF options.flatten_styles
                               THEN flatten(definitions) ELSE {flattened}) :
          \E source_nodes \in SourceNodeTables, source_props \in SourcePropertyTables :
             /\ flattened' = flattenedStyles
             /\ units' = compile(units, options, flattenedStyles,
                                 source_nodes, source_props)
             /\ compiled' = Some([source_nodes |-> source_nodes,
                                  source_props |-> source_props,
                                  result |-> TRUE])
    /\ flattenState' = IF ~options.flatten_styles THEN flattenState
                       ELSE IF flattenState = "stale" THEN "flattened"
                       ELSE "reflattened"
    /\ UNCHANGED <<table, definitions, codecVars, checksumVars, shaperVars, tableVars,
                   options, poolVars, builderVars>>

CompileNext ==
    \/ ContextCreateStyle
    \/ ContextSetProperty
    \/ Compile

CompileSpec == CompileInit /\ [][CompileNext]_vars

\* ---------------------------------------------- CompilerContext properties

\* C16: after compile returns, units holds a unit under each id listed in
\* options.target_environments, or under key 0 alone if that list is empty;
\* every unit stored under key k has environment_id = k and as many nodes as
\* the source table, and the units of one call differ from each other only in
\* environment_id and checksum.
C16_UnitPerEnvironment ==
    compiled.some =>
        /\ DOMAIN units = (IF Len(options.target_environments) = 0 THEN {0}
                           ELSE Range(options.target_environments))
        /\ \A k \in DOMAIN units :
              /\ units[k].environment_id = k
              /\ Len(units[k].nodes.node_types)
                    = Len(compiled.value.source_nodes.node_types)
        /\ \A j, k \in DOMAIN units :
              \A f \in DOMAIN units[k] \ {"environment_id", "checksum"} :
                 units[j][f] = units[k][f]

\* A source of two nodes was compiled for the environments 1 and 2.
C16_Witness ==
    /\ compiled.some
    /\ options.target_environments = <<1, 2>>
    /\ DOMAIN units = {1, 2}
    /\ Len(units[1].nodes.node_types) = 2
    /\ units[1].checksum # units[2].checksum

\* The bytes of ((n * 31 + env) * 31 + s) as a little-endian u64, for a value
\* below 2^24.
UnitChecksumOf(n, env, s) ==
    <<((n * 31 + env) * 31 + s) % 256, (((n * 31 + env) * 31 + s) \div 256) % 256,
      ((n * 31 + env) * 31 + s) \div 65536, 0, 0, 0, 0, 0>>

\* C17: compile_unit copies, for every source node i, its node_type, parent,
\* first_child, next_sibling and style_id, and (when the source property
\* table has a row i) its direction, pack, align, width, height, gap_row,
\* gap_col, four inset values, four offset values and fill RGBA; the text
\* fields of every row of the unit (text id, font size, text colour) stay at
\* their defaults; the unit's styles are the context's `flattened` vector and
\* its checksum is computed from node count, environment id and style count.
C17_CompileUnitCopies ==
    compiled.some =>
        \A k \in DOMAIN units :
           LET u == units[k]
               nodes == compiled.value.source_nodes
               props == compiled.value.source_props
           IN  /\ Len(u.nodes.node_types) = Len(nodes.node_types)
               /\ \A i \in 1..Len(nodes.node_types) :
                     /\ u.nodes.node_types[i] = nodes.node_types[i]
                     /\ u.nodes.parents[i] = nodes.parents[i]
                     /\ u.nodes.first_children[i] = nodes.first_children[i]
                     /\ u.nodes.next_siblings[i] = nodes.next_siblings[i]
                     /\ u.nodes.style_ids[i] = nodes.style_ids[i]
                     /\ i <= Len(props.direction) =>
                           \A c \in {"direction", "pack", "align", "width", "height",
                                     "gap_row", "gap_col", "inset_top", "inset_right",
                                     "inset_bottom", "inset_left", "offset_top",
                                     "offset_right", "offset_bottom", "offset_left",
                                     "fill_r", "fill_g", "fill_b", "fill_a"} :
                              u.properties[c][i] = props[c][i]
                     /\ u.properties.text_id[i] = 0
                     /\ u.properties.font_size[i] = 1098907648
                     /\ u.properties.color_r[i] = 0
                     /\ u.properties.color_g[i] = 0
                     /\ u.properties.color_b[i] = 0
                     /\ u.properties.color_a[i] = 255
               /\ u.styles = flattened
               /\ u.checksum = UnitChecksumOf(Len(nodes.node_types), k, Len(u.styles))

\* A source of two nodes whose first property row has text fields set was
\* compiled with one flattened style: the unit has the row's layout values and
\* the default text fields.
C17_Witness ==
    /\ compiled.some
    /\ 0 \in DOMAIN units
    /\ Len(units[0].nodes.node_types) = 2
    /\ compiled.value.source_props.font_size = <<F32_50>>
    /\ compiled.value.source_props.text_id = <<7>>
    /\ units[0].properties.width = <<F32_100, F32_ZERO>>
    /\ units[0].properties.font_size = <<1098907648, 1098907648>>
    /\ units[0].properties.text_id = <<0, 0>>
    /\ Len(units[0].styles) = 1
    /\ units[0].styles[1].width = F32_100

\* ------------------------------------------------ StringPool state machine

\* The strings given to intern: two words, the empty string and a third word.
StringSamples == {"hello", "world", "", "test"}

\* The ids given to get: 0, every id that can be handed out, and one more.
StringIdSamples == 0..(Cardinality(StringSamples) + 1)

\* pool.intern(s)
Intern ==
    /\ \E s \in StringSamples :
          \E r \in {intern(stringPool, s)} :
             /\ stringPool' = r.pool
             /\ poolCall' = [op |-> "intern", s |-> s, id |-> r.id]
             /\ handedOut' = handedOut \cup {<<s, r.id>>}
    /\ UNCHANGED <<coreVars, checksumVars, shaperVars, tableVars, compilerVars, builderVars>>

\* pool.get(id)
PoolGet ==
    /\ \E id \in StringIdSamples :
          poolCall' = [op |-> "get", id |-> id, result |-> StringPoolGet(stringPool, id)]
    /\ UNCHANGED <<coreVars, checksumVars, shaperVars, tableVars, compilerVars,
                   stringPool, handedOut, builderVars>>

\* pool.clear()
PoolClear ==
    /\ stringPool' = StringPoolClear(stringPool)
    /\ poolCall' = [op |-> "clear"]
    /\ handedOut' = {}
    /\ UNCHANGED <<coreVars, checksumVars, shaperVars, tableVars, compilerVars, builderVars>>

PoolNext ==
    \/ Intern
    \/ PoolGet
    \/ PoolClear

PoolInit == CoreIdle /\ SideIdle

PoolSpec == PoolInit /\ [][PoolNext]_vars

\* --------------------------------------------------- StringPool properties

\* C18: StringPool ids are stable and unique.  Over the intern calls since the
\* pool was made (or cleared), intern(s) has returned a non-zero id, the same
\* id for equal strings and different ids for different strings; get(id)
\* returns s for every pair handed out and intern(s) would return that id
\* again; get(0) and get(id) for an id never handed out return None; and
\* len() is the number of distinct strings interned.
C18_StableUniqueIds ==
    /\ \A p \in handedOut :
          /\ p[2] # 0
          /\ StringPoolGet(stringPool, p[2]) = [some |-> TRUE, value |-> p[1]]
          /\ intern(stringPool, p[1]).id = p[2]
    /\ \A p, q \in handedOut : (p[1] = q[1]) <=> (p[2] = q[2])
    /\ \A id \in StringIdSamples :
          (id = 0 \/ id \notin {p[2] : p \in handedOut})
             => StringPoolGet(stringPool, id) = [some |-> FALSE]
    /\ StringPoolLen(stringPool) = Cardinality({p[1] : p \in handedOut})
    /\ (poolCall.op = "get" /\ poolCall.id \in {p[2] : p \in handedOut})
          => \E p \in handedOut : p[2] = poolCall.id /\ poolCall.result = Some(p[1])

\* "hello", "world" and "hello" again were interned, then the empty string,
\* and get(2) has returned "world".
C18_Witness ==
    /\ handedOut = {<<"hello", 1>>, <<"world", 2>>, <<"", 3>>}
    /\ poolCall = [op |-> "get", id |-> 2, result |-> Some("world")]
    /\ StringPoolLen(stringPool) = 3


\* ======================================================== append-only node table

\* The (column, row) link fields of the first n rows that differ between two
\* tables.
ChangedLinks(old, new, n) ==
    {f \in {"first_children", "next_siblings"} \X (1..n) :
        new[f[1]][f[2]] # old[f[1]][f[2]]}

\* C19. The node table is append-only with dense 1-based ids: a create_node
\* call on a table of n nodes returns n+1 and leaves n+1 nodes, leaves
\* node_type, parent and style_id of the nodes 1..n as they were, and changes
\* at most one link field of one of them, a first_child or next_sibling that
\* was 0 and becomes n+1.
C19_AppendOnly ==
    [][table' # table =>
        LET n == NodeTableLen(table) IN
        /\ create_node_id(table) = n + 1
        /\ NodeTableLen(table') = n + 1
        /\ Len(table'.parents) = n + 1
        /\ Len(table'.style_ids) = n + 1
        /\ Len(table'.first_children) = n + 1
        /\ Len(table'.next_siblings) = n + 1
        /\ \A i \in 1..n :
              /\ table'.node_types[i] = table.node_types[i]
              /\ table'.parents[i] = table.parents[i]
              /\ table'.style_ids[i] = table.style_ids[i]
        /\ Cardinality(ChangedLinks(table, table', n)) <= 1
        /\ \A f \in ChangedLinks(table, table', n) :
              /\ table[f[1]][f[2]] = 0
              /\ table'[f[1]][f[2]] = n + 1]_vars

\* Three nodes made by three calls: the second set the first_child of node 1,
\* the third set the next_sibling of node 2.
C19_Witness ==
    /\ NodeTableLen(table) = 3
    /\ table.parents = <<0, 1, 1>>
    /\ table.first_children = <<2, 0, 0>>
    /\ table.next_siblings = <<0, 3, 0>>


\* ------------------------------------------------ one record per definition

\* One (name, value) pair for every recognized property: each name with a
\* value of the tag its arm of the match takes.
RecognizedSamples ==
    {<<"direction", PvDirection(1)>>, <<"pack", PvPack(2)>>, <<"align", PvAlign(3)>>,
     <<"fill", PvColor(1, 2, 3, 4)>>}
    \cup {<<name, PvFloat(F32_100)>> : name \in FloatPropertyNames}

\* The fields of FlatStyle that the own properties of a definition set: the
\* properties whose value has the tag their name is recognized with.
SetFields(def) ==
    LET p == def.properties
        Has(name, tag) == name \in DOMAIN p /\ p[name].tag = tag
    IN  {f \in FloatPropertyNames : Has(f, "Float")}
        \cup (IF Has("direction", "Direction") THEN {"direction"} ELSE {})
        \cup (IF Has("pack", "Pack") THEN {"pack"} ELSE {})
        \cup (IF Has("align", "Align") THEN {"align"} ELSE {})
        \cup (IF Has("fill", "Color") THEN {"fill_r", "fill_g", "fill_b", "fill_a"} ELSE {})

\* The value the own property for field f carries.
SetValue(def, f) ==
    CASE f = "fill_r" -> def.properties["fill"].r
      [] f = "fill_g" -> def.properties["fill"].g
      [] f = "fill_b" -> def.properties["fill"].b
      [] f = "fill_a" -> def.properties["fill"].a
      [] OTHER -> def.properties[f].v

\* Record `flat` is built from definition `def` starting from `start`: each
\* recognized own property has set its field, and every other field but the
\* checksum is as in `start`.
BuiltFrom(flat, def, start) ==
    /\ \A f \in SetFields(def) : flat[f] = SetValue(def, f)
    /\ \A f \in FlatValueFields \ SetFields(def) : flat[f] = start[f]

\* C20. After flatten(), `flattened` holds exactly one record per definition,
\* in declaration order: flattened[i] is built from definitions[i], each
\* recognized own property of the definition has set its field of the record
\* (width = 100.0 and height = 50.0 give width 100.0 and height 50.0), and
\* the fields it does not set keep the values the record started with. The
\* same holds of a single definition with any one of the recognized
\* properties.
C20_OneRecordPerDefinition ==
    /\ FlattenedIsFresh =>
          /\ Len(flattened) = Len(definitions)
          /\ \A i \in 1..Len(definitions) :
                BuiltFrom(flattened[i], definitions[i],
                          StartRecord(definitions, SubSeq(flattened, 1, i - 1),
                                      definitions[i]))
    /\ FlattenedIsFresh /\ Len(definitions) > 0 =>
          \A nv \in RecognizedSamples :
              LET defs == set_property(create_style(<<>>, 1), 1, nv[1], nv[2])
              IN  \A v \in flatten(defs) :
                      /\ Len(v) = 1
                      /\ SetFields(defs[1]) # {}
                      /\ BuiltFrom(v[1], defs[1], FlatStart)

\* Two definitions flattened, the first with no recognized property and the
\* second with width = 100.0, height = 50.0: the first record has the starting
\* values, the second width 100.0 and height 50.0.
C20_Witness ==
    /\ FlattenedIsFresh
    /\ Len(definitions) = 2
    /\ Len(flattened) = 2
    /\ DOMAIN definitions[1].properties = {}
    /\ DOMAIN definitions[2].properties = {"width", "height"}
    /\ definitions[2].properties["width"] = PvFloat(F32_100)
    /\ flattened[1].width = F32_ZERO
    /\ flattened[1].height = F32_ZERO
    /\ flattened[2].width = F32_100
    /\ flattened[2].height = F32_50
    /\ flattened[2].max_width = F32_MAX


\* ------------------------------------------------------- link invariants

\* C21. Link invariant: after create_node calls each made with parent 0 or an
\* id already in the table, every non-zero parent, first_child and
\* next_sibling is an id between 1 and the node count, parent[c] < c for
\* every node c with a parent, and first_child[p] > p for every node p with
\* children.
C21_LinksInRange ==
    ValidParents(table) =>
        LET n == NodeTableLen(table) IN
        \A i \in 1..n :
            /\ table.parents[i] \in 0..n
            /\ table.first_children[i] \in 0..n
            /\ table.next_siblings[i] \in 0..n
            /\ table.parents[i] # 0 => table.parents[i] < i
            /\ table.first_children[i] # 0 => table.first_children[i] > i

\* A chain of three nodes, each the only child of the one before, and so
\* with two first_child links.
C21_Witness ==
    /\ NodeTableLen(table) = 3
    /\ table.parents = <<0, 1, 2>>
    /\ table.first_children = <<2, 3, 0>>
    /\ table.next_siblings = <<0, 0, 0>>


\* C22. A create_node call with a parent greater than the node count before
\* the call (the id about to be assigned included) appends the node, returns
\* the next dense id and links nothing: the first_child and next_sibling of
\* every old node are as before and those of the new node are 0.
C22_UnknownParentLinksNothing ==
    [][table' # table /\ table'.parents[NodeTableLen(table) + 1] > NodeTableLen(table) =>
        /\ create_node_id(table) = NodeTableLen(table) + 1
        /\ NodeTableLen(table') = NodeTableLen(table) + 1
        /\ table'.first_children = Append(table.first_children, 0)
        /\ table'.next_siblings = Append(table.next_siblings, 0)]_vars


\* ------------------------------------------------ aligned property table

\* C24. A CompiledUnit obtained from read_binary() keeps its PropertyTable
\* aligned 1:1 with its NodeTable, as one obtained from compile() does: each
\* property array has as many elements as the unit has nodes.
C24_PropertiesAligned ==
    decoded.some =>
        \A c \in DOMAIN decoded.value.properties :
            Len(decoded.value.properties[c]) = NodeTableLen(decoded.value.nodes)


\* ------------------------------------------------- unmatched properties

\* The (name, value) pairs the match of flatten() has an arm for.
Recognized(name, value) ==
    \/ name = "direction" /\ value.tag = "Direction"
    \/ name = "pack" /\ value.tag = "Pack"
    \/ name = "align" /\ value.tag = "Align"
    \/ name \in FloatPropertyNames /\ value.tag = "Float"
    \/ name = "fill" /\ value.tag = "Color"

\* The definitions without the properties that match no arm.
WithoutUnmatched(defs) ==
    [i \in 1..Len(defs) |->
        LET p == defs[i].properties
        IN  [defs[i] EXCEPT !.properties =
                [n \in {m \in DOMAIN p : Recognized(m, p[m])} |-> p[n]]]]

\* Definition i has a property that matches no arm.
HasUnmatched(i) ==
    \E m \in DOMAIN definitions[i].properties :
        ~Recognized(m, definitions[i].properties[m])

\* C23. Properties that match no arm of the flatten dispatch (an unrecognized
\* name, or a recognized name with a value of another tag, as width given as
\* Int) are ignored: flatten() leaves one record per definition, and the
\* records are those it produces for the definitions without these
\* properties.
C23_UnmatchedIgnored ==
    FlattenedIsFresh =>
        /\ Len(flattened) = Len(definitions)
        /\ flattened \in flatten(WithoutUnmatched(definitions))

\* A flattened definition with height = 50.0, a width given as Int and a
\* max_width, which no arm takes: height is 50.0, width and max_width are as
\* the record started.
C23_Witness ==
    /\ FlattenedIsFresh
    /\ \E i \in 1..Len(definitions) :
          /\ DOMAIN definitions[i].properties = {"width", "height", "max_width"}
          /\ definitions[i].properties["width"] = PvInt(7)
          /\ HasUnmatched(i)
          /\ flattened[i].height = F32_50
          /\ flattened[i].width = F32_ZERO
          /\ flattened[i].max_width = F32_MAX


\* ------------------------------------------------- paragraph metrics

\* The shape_paragraph call of this step found no entry under its key, so it
\* computed the paragraph it returns.
FreshlyShaped ==
    /\ shaperCall'.op = "shape_paragraph"
    /\ KeyOf(shaperCall'.text, shaperCall'.max_width) \notin DOMAIN textShaper.cache

\* font_size * 1.2, in thousandths.
LineHeightOf(font_size) == (font_size * 12) \div 10

\* C25, as claimed. A freshly computed shape_paragraph result, for every text
\* and max_width, the empty and the whitespace-only text included, has one
\* cluster per line and a height of line_count * font_size * 1.2.
C25_HeightIsLinesTotal ==
    [][FreshlyShaped =>
         /\ Len(lastShaped'.value.clusters) = lastShaped'.value.line_count
         /\ lastShaped'.value.height
               = lastShaped'.value.line_count * LineHeightOf(textShaper.font_size)]_vars

\* C25, amended. A freshly computed shape_paragraph result has one cluster
\* per line and a height that is the greater of line_count * font_size * 1.2
\* and font_size * 1.2: a text with no line gives no cluster, line_count 0
\* and the height of one line.
C25_HeightAtLeastOneLine ==
    [][FreshlyShaped =>
         /\ Len(lastShaped'.value.clusters) = lastShaped'.value.line_count
         /\ lastShaped'.value.height
               = MaxOf(lastShaped'.value.line_count * LineHeightOf(textShaper.font_size),
                       LineHeightOf(textShaper.font_size))]_vars

\* The whitespace-only text was shaped at font size 20.0 with nothing cached:
\* no line, no cluster, height 24.0.
C25_Witness ==
    /\ shaperCall = [op |-> "shape_paragraph", text |-> <<32, 9>>, max_width |-> 20000]
    /\ textShaper.font_size = 20000
    /\ Cardinality(DOMAIN textShaper.cache) = 1
    /\ lastShaped.some
    /\ lastShaped.value.line_count = 0
    /\ lastShaped.value.clusters = <<>>
    /\ lastShaped.value.height = 24000


\* The cache entry under `key` is what the miss path builds, with the
\* shaper's current font size, for a text and width that have this key.
ShapedAtCurrentSize(key) ==
    \E text \in TextSamples, max_width \in WidthSamples :
        /\ KeyOf(text, max_width) = key
        /\ textShaper.cache[key] = Shape(textShaper, text, max_width)

\* C29. Cache/font-size consistency: after any interleaving of
\* shape_paragraph, set_font_size and clear_cache calls, every entry in the
\* cache was computed with the shaper's current font_size, and so is the
\* paragraph a cache hit returns.
C29_CacheAtCurrentSize ==
    /\ \A key \in DOMAIN textShaper.cache : ShapedAtCurrentSize(key)
    /\ shaperCall.op = "shape_paragraph" =>
          /\ lastShaped.some
          /\ \A c \in Range(lastShaped.value.clusters) :
                c.height = LineHeightOf(textShaper.font_size)
          /\ lastShaped.value.height
                >= LineHeightOf(textShaper.font_size)

\* The font size went to 20.0 and then to 16.005; "Hello World" was shaped at
\* 200.0 and a second call at 200.05 was served from the cache, with line
\* height 19.206.
C29_Witness ==
    /\ textShaper.font_size = 16005
    /\ shaperCall = [op |-> "shape_paragraph",
                     text |-> <<72, 101, 108, 108, 111, 32, 87, 111, 114, 108, 100>>,
                     max_width |-> 200050]
    /\ lastShaped.some
    /\ lastShaped.value.max_width = 200000
    /\ lastShaped.value.height = 19206


\* --------------------------------------- StyleTable calls, with their record

\* The (name, value) pairs set_property is given here: width and height as in
\* test_style_flattening.
CallPropertySamples ==
    {<<"width", PvFloat(F32_100)>>, <<"height", PvFloat(F32_50)>>}

\* table.create_style(id)
CallCreateStyle ==
    /\ Len(definitions) < MaxStyles
    /\ \E id \in StyleDefIds :
          /\ definitions' = create_style(definitions, id)
          /\ styleCall' = [op |-> "create_style", style_id |-> id]
    /\ flattenState' = "stale"
    /\ UNCHANGED <<table, flattened, codecVars, checksumVars, shaperVars, tableVars,
                   compilerVars, poolVars, contentBuilder>>

\* table.inherit_style(style_id, parent_id)
CallInheritStyle ==
    /\ \E style_id \in StyleDefIds, parent_id \in ParentIdSamples :
          /\ definitions' = inherit_style(definitions, style_id, parent_id)
          /\ styleCall' = [op |-> "inherit_style", style_id |-> style_id]
    /\ flattenState' = "stale"
    /\ UNCHANGED <<table, flattened, codecVars, checksumVars, shaperVars, tableVars,
                   compilerVars, poolVars, contentBuilder>>

\* table.set_property(style_id, name, value)
CallSetProperty ==
    /\ \E style_id \in StyleDefIds, nv \in CallPropertySamples :
          /\ definitions' = set_property(definitions, style_id, nv[1], nv[2])
          /\ styleCall' = [op |-> "set_property", style_id |-> style_id]
    /\ flattenState' = "stale"
    /\ UNCHANGED <<table, flattened, codecVars, checksumVars, shaperVars, tableVars,
                   compilerVars, poolVars, contentBuilder>>

\* table.flatten()
CallFlatten ==
    /\ flattened' \in flatten(definitions)
    /\ styleCall' = [op |-> "flatten"]
    /\ flattenState' = IF flattenState = "stale" THEN "flattened" ELSE "reflattened"
    /\ UNCHANGED <<table, definitions, codecVars, checksumVars, shaperVars, tableVars,
                   compilerVars, poolVars, contentBuilder>>

StyleCallNext == CallCreateStyle \/ CallInheritStyle \/ CallSetProperty \/ CallFlatten

StyleCallInit == CoreIdle /\ SideIdle

StyleCallSpec == StyleCallInit /\ [][StyleCallNext]_vars

\* No definition carries the id.
NotCarried(style_id) ==
    \A i \in 1..Len(definitions) : definitions[i].id # style_id

\* C26. `flattened` is derived state that only flatten() writes:
\* create_style, inherit_style and set_property leave `flattened` as the last
\* flatten() left it, and inherit_style or set_property with a style_id that
\* no definition carries changes neither `definitions` nor `flattened`.
C26_OnlyFlattenWritesFlattened ==
    [][/\ styleCall'.op \in {"create_style", "inherit_style", "set_property"} =>
             flattened' = flattened
       /\ styleCall'.op \in {"inherit_style", "set_property"}
             /\ NotCarried(styleCall'.style_id) =>
             /\ definitions' = definitions
             /\ flattened' = flattened]_vars

\* Style 1 was flattened with no width and then given width = 100.0, so its
\* record is stale; the last call, a set_property on style 2, which no
\* definition carries, has left both as they were.
C26_Witness ==
    /\ styleCall = [op |-> "set_property", style_id |-> 2]
    /\ Len(definitions) = 1
    /\ definitions[1].id = 1
    /\ NotCarried(2)
    /\ "width" \in DOMAIN definitions[1].properties
    /\ flattenState = "stale"
    /\ Len(flattened) = 1
    /\ flattened[1].width = F32_ZERO


\* ---------------------------------------------------- maximum size default

\* The bit pattern of +infinity, the one after f32::MAX (0x7F800000).
F32_INFINITY == F32_MAX + 1

\* Definition i neither sets nor inherits a maximum size.
NoMaximumSize(i) ==
    /\ definitions[i].parent_id = 0
    /\ DOMAIN definitions[i].properties \cap {"max_width", "max_height"} = {}

\* C27. flatten() starts every record from defaults with max_width and
\* max_height infinity: the record of a style that neither sets nor inherits
\* a maximum size has max_width = max_height = +infinity, serialized as the
\* bytes of IEEE-754 single-precision infinity.
C27_MaxSizeDefaultsToInfinity ==
    FlattenedIsFresh =>
        \A i \in 1..Len(definitions) :
            NoMaximumSize(i) =>
                /\ flattened[i].max_width = F32_INFINITY
                /\ flattened[i].max_height = F32_INFINITY
                /\ SubSeq(FlatStyleBytes(flattened[i]), 29, 36)
                      = U32ToLe(F32_INFINITY) \o U32ToLe(F32_INFINITY)


\* ----------------------------------------------------- sibling chains

\* s is strictly increasing.
StrictlyIncreasing(s) == \A i \in 1..(Len(s) - 1) : s[i] < s[i + 1]

\* C28. Sibling chains are strictly increasing: after create_node calls with
\* arbitrary parent arguments, next_sibling[i] is 0 or an id greater than i
\* and at most the node count, so that get_children(id), for every id, walks
\* only ids of the table and returns a strictly increasing list, without
\* duplicates.
C28_SiblingChainsIncrease ==
    LET n == NodeTableLen(table) IN
    /\ \A i \in 1..n :
          \/ table.next_siblings[i] = 0
          \/ table.next_siblings[i] > i /\ table.next_siblings[i] <= n
    /\ \A i \in 1..n : table.first_children[i] \in 0..n
    /\ \A id \in 0..(n + 1) :
          /\ Range(get_children(table, id)) \subseteq 1..n
          /\ StrictlyIncreasing(get_children(table, id))
          /\ Cardinality(Range(get_children(table, id))) = Len(get_children(table, id))

\* Node 1 was created with itself as parent and node 2 with parent 1: node 1
\* is its own first child, node 2 its next sibling, and get_children(1) is
\* <<1, 2>>.
C28_Witness ==
    /\ NodeTableLen(table) = 2
    /\ table.parents = <<1, 1>>
    /\ table.first_children = <<1, 0>>
    /\ table.next_siblings = <<2, 0>>
    /\ get_children(table, 1) = <<1, 2>>


\* ------------------------------------------- ContentBuilder state machine

\* The arguments of the builder's calls: the text of a span, Direction::Right,
\* an inset of 16.0, and an opaque red fill.
SpanTextSamples == {"Hello"}
DirectionSamples == {2}
BuilderInsetSamples == {F32_16}
BuilderFillSamples == {Color(255, 0, 0, 255)}

\* A call is made on a builder that has not panicked; the calls that add a
\* node are made while the tree has fewer than MaxNodes nodes.
BuilderRuns == ~contentBuilder.panicked
BuilderHasRoom == NodeTableLen(contentBuilder.nodes) < MaxNodes

BuilderFrame ==
    UNCHANGED <<coreVars, checksumVars, shaperVars, tableVars, compilerVars, poolVars,
                styleCall>>

\* builder.begin_stack()
BeginStack ==
    /\ BuilderRuns /\ BuilderHasRoom
    /\ contentBuilder' = begin_container(contentBuilder, 1)
    /\ BuilderFrame

\* builder.begin_paragraph()
BeginParagraph ==
    /\ BuilderRuns /\ BuilderHasRoom
    /\ contentBuilder' = begin_container(contentBuilder, 5)
    /\ BuilderFrame

\* builder.rect()
Rect ==
    /\ BuilderRuns /\ BuilderHasRoom
    /\ contentBuilder' = rect(contentBuilder)
    /\ BuilderFrame

\* builder.span(text)
Span ==
    /\ BuilderRuns /\ BuilderHasRoom
    /\ \E text \in SpanTextSamples : contentBuilder' = span(contentBuilder, text)
    /\ BuilderFrame

\* builder.end()
End ==
    /\ BuilderRuns
    /\ contentBuilder' = end(contentBuilder)
    /\ BuilderFrame

\* builder.direction(dir)
BuilderDirection ==
    /\ BuilderRuns
    /\ \E dir \in DirectionSamples : contentBuilder' \in direction(contentBuilder, dir)
    /\ BuilderFrame

\* builder.inset(v)
BuilderInset ==
    /\ BuilderRuns
    /\ \E v \in BuilderInsetSamples : contentBuilder' \in builder_inset(contentBuilder, v)
    /\ BuilderFrame

\* builder.fill(color)
BuilderFill ==
    /\ BuilderRuns
    /\ \E color \in BuilderFillSamples : contentBuilder' = fill(contentBuilder, color)
    /\ BuilderFrame

BuilderNext ==
    \/ BeginStack
    \/ BeginParagraph
    \/ Rect
    \/ Span
    \/ End
    \/ BuilderDirection
    \/ BuilderInset
    \/ BuilderFill

BuilderInit == CoreIdle /\ SideIdle

BuilderSpec == BuilderInit /\ [][BuilderNext]_vars

\* C30. The builder keeps a valid insertion point: after any sequence of
\* begin_stack, begin_paragraph, rect, span, end and setter calls,
\* current_parent is the id of an existing node, so that the index
\* current_parent - 1 of the setters never underflows, node 1 is the only
\* node with parent 0, and every column of the property table has the node
\* count as its length.
C30_ValidInsertionPoint ==
    LET n == NodeTableLen(contentBuilder.nodes) IN
    /\ contentBuilder.current_parent \in 1..n
    /\ ~contentBuilder.panicked
    /\ \A i \in 1..n : contentBuilder.nodes.parents[i] = 0 <=> i = 1
    /\ \A c \in DOMAIN contentBuilder.properties :
          Len(contentBuilder.properties[c]) = n

====
